---- MODULE Spec2Model ----
(***************************************************************************)
(* Terminal Commander (vulcu/terminal-commander): the line buffer, the     *)
(* validation pass, the tokenizer, the user-command registry, the          *)
(* dispatcher and the two-wire built-ins of src/src/terminal_commander.cpp *)
(* (latest revision, lines 1-632) with the declarations of                 *)
(* src/unnamed/part_002.                                                   *)
(*                                                                         *)
(* Bytes are numbers 0..255.  A C array is a function on 0..size-1.  A     *)
(* pointer into serialRx is the index it points at; NULLPTR is -1.  One    *)
(* call of Terminal::loop is one step.  The variable cyc records what the  *)
(* last call of loop did (a history variable, never read by the program).  *)
(***************************************************************************)
EXTENDS Integers, Sequences, FiniteSets, TLC

VARIABLES pc, userCharCallbacks, numUserCharCallbacks, isEchoEnabled,
          isNewTerminalCommandPrompt, termCommandDelimiter, lastError,
          command, input, pos, cyc

vars == <<pc, userCharCallbacks, numUserCharCallbacks, isEchoEnabled,
          isNewTerminalCommandPrompt, termCommandDelimiter, lastError,
          command, input, pos, cyc>>

---------------------------------------------------------------------------
(* Program constants                                                       *)

TERM_LINE_ENDING == 10

TERM_DEFAULT_CMD_DELIMITER == 32

TERM_CHAR_BUFFER_SIZE == 64

TERM_TWOWIRE_BUFFER_SIZE == 30

MAX_USER_COMMANDS == 10

\* ASCII 8, the backspace byte tested in Terminal::loop
BACKSPACE == 8

\* '\0'
NUL == 0

\* nullptr
NULLPTR == -1

\* twi_error_type_t
NO_ERROR == 0

NACK_ADDRESS == 2

TWI_OTHER == 4

twi_error_type_t == 0..5

\* uint8_t arithmetic
U8(n) == n % 256

---------------------------------------------------------------------------
(* Bounds of the explored inputs                                           *)

\* every byte sequence over Alphabet up to this length is an input stream
MaxLen == 2

\* the host binds at most this many commands during setup
MaxBind == 1

\* a loop() call finds 0..MaxBatch bytes available, or the whole rest
MaxBatch == 2

---------------------------------------------------------------------------
(* Library functions                                                       *)

\* Arduino isSpace(): space, \t, \n, \v, \f, \r
isSpace(c) == c \in {32, 9, 10, 11, 12, 13}

\* the least element of a non-empty set of numbers
Min(S) == CHOOSE m \in S : \A n \in S : m <= n

\* the C string held in array f (of the given size) from index from: the
\* bytes before the first NUL
CStr(f, from, size) ==
  LET end == Min({i \in from..(size - 1) : f[i] = NUL} \cup {size})
  IN [i \in 1..(end - from) |-> f[from + i - 1]]

\* strcmp as it would be if it took upper-case and lower-case letters for
\* the same (0 for equal, 1 otherwise)
strcmp_ignoreCase(s1, s2) ==
  IF /\ Len(s1) = Len(s2)
     /\ \A i \in 1..Len(s1) :
          (IF s1[i] \in 65..90 THEN s1[i] + 32 ELSE s1[i])
            = (IF s2[i] \in 65..90 THEN s2[i] + 32 ELSE s2[i])
  THEN 0 ELSE 1

\* strcmp over C strings given as the sequences of their bytes before the NUL
RECURSIVE strcmp(_, _)
strcmp(s1, s2) ==
  IF s1 # <<>> THEN
    IF s2 = <<>> THEN 1
    ELSE IF Head(s2) > Head(s1) THEN -1
    ELSE IF Head(s1) > Head(s2) THEN 1
    ELSE strcmp(Tail(s1), Tail(s2))
  ELSE IF s2 # <<>> THEN -1
  ELSE 0

---------------------------------------------------------------------------
(* Error                                                                   *)

\* Error::Error; message holds the kind whose text was copied last
Error_Init == [flag |-> FALSE, warning |-> FALSE, type |-> "NoError",
               message |-> "NoError"]

Error_set(e, error_type) ==
  [e EXCEPT !.flag = TRUE, !.type = error_type, !.message = error_type]

\* Error::clear as it would be if it left the flag set
Error_clear_keepFlag(e) ==
  [e EXCEPT !.warning = FALSE, !.type = "NoError"]

\* Error::clear as it would be if it cleared the warning only
Error_clear_warningOnly(e) == [e EXCEPT !.warning = FALSE]

Error_clear(e) ==
  [e EXCEPT !.flag = FALSE, !.warning = FALSE, !.type = "NoError"]

---------------------------------------------------------------------------
(* Command                                                                 *)

\* Command::Command with the in-class initializers of the three arrays
Command_Init ==
  [serialRx   |-> [i \in 0..TERM_CHAR_BUFFER_SIZE |-> NUL],
   data       |-> [i \in 0..TERM_CHAR_BUFFER_SIZE |-> NUL],
   twowire    |-> [i \in 0..(TERM_TWOWIRE_BUFFER_SIZE - 1) |-> 0],
   pArgs      |-> NULLPTR,
   iArgs      |-> 0,
   cmdLength  |-> 0,
   argsLength |-> 0,
   index      |-> 0,
   complete   |-> FALSE,
   overflow   |-> FALSE]

\* Command::next as it would be if it stored before it counted
\* (serialRx[++index] = character)
Command_next_preIncrement(c, character) ==
  IF character = TERM_LINE_ENDING THEN [c EXCEPT !.complete = TRUE]
  ELSE IF c.index >= TERM_CHAR_BUFFER_SIZE THEN [c EXCEPT !.overflow = TRUE]
  ELSE [c EXCEPT !.serialRx[c.index + 1] = character, !.index = c.index + 1]

\* Command::next as it would be if the last byte of the buffer were kept
\* free: overflow one byte early
Command_next_earlyOverflow(c, character) ==
  IF character = TERM_LINE_ENDING THEN [c EXCEPT !.complete = TRUE]
  ELSE IF c.index >= TERM_CHAR_BUFFER_SIZE - 1
  THEN [c EXCEPT !.overflow = TRUE]
  ELSE [c EXCEPT !.serialRx[c.index] = character, !.index = c.index + 1]

\* Command::next as it would be if a full buffer completed the line
Command_next_completeOnFull(c, character) ==
  IF character = TERM_LINE_ENDING THEN [c EXCEPT !.complete = TRUE]
  ELSE IF c.index >= TERM_CHAR_BUFFER_SIZE THEN [c EXCEPT !.complete = TRUE]
  ELSE [c EXCEPT !.serialRx[c.index] = character, !.index = c.index + 1]

\* Command::next as it would be if it reported overflow one byte late
\* (index > TERM_CHAR_BUFFER_SIZE)
Command_next_lateOverflow(c, character) ==
  IF character = TERM_LINE_ENDING THEN [c EXCEPT !.complete = TRUE]
  ELSE IF c.index > TERM_CHAR_BUFFER_SIZE THEN [c EXCEPT !.overflow = TRUE]
  ELSE [c EXCEPT !.serialRx[c.index] = character, !.index = c.index + 1]

Command_next(c, character) ==
  IF character = TERM_LINE_ENDING THEN [c EXCEPT !.complete = TRUE]
  ELSE IF c.index >= TERM_CHAR_BUFFER_SIZE THEN [c EXCEPT !.overflow = TRUE]
  ELSE [c EXCEPT !.serialRx[c.index] = character, !.index = c.index + 1]

\* Command::previous as it would be if it left the byte in the slot it
\* frees
Command_previous_keepByte(c) ==
  IF c.index > 0 THEN [c EXCEPT !.index = c.index - 1] ELSE c

Command_previous(c) ==
  IF c.index > 0
  THEN [c EXCEPT !.serialRx[c.index - 1] = NUL, !.index = c.index - 1]
  ELSE c

Command_flushInput(c) ==
  [c EXCEPT !.serialRx = [i \in 0..TERM_CHAR_BUFFER_SIZE |-> NUL],
            !.complete = FALSE, !.overflow = FALSE]

Command_flushTwoWire(c) ==
  [c EXCEPT !.twowire = [i \in 0..(TERM_TWOWIRE_BUFFER_SIZE - 1) |-> 0]]

Command_initialize(c) ==
  [Command_flushTwoWire(c) EXCEPT
     !.pArgs = NULLPTR, !.iArgs = 0, !.cmdLength = 0, !.argsLength = 0,
     !.index = 0,
     !.data = [i \in 0..TERM_CHAR_BUFFER_SIZE |-> NUL]]

\* Command::reset as it would be if it flushed the input only
Command_reset_inputOnly(c) == Command_flushInput(c)

Command_reset(c) == Command_initialize(Command_flushInput(c))

---------------------------------------------------------------------------
(* Transport output and bus operations, as recorded in cyc                 *)

\* one print call on the transport: its text (or kind) and its number
Tok(t, v) == [t |-> t, v |-> v]

\* one call on the bus: beginTransmission(a), write(v), endTransmission()
\* returning v, requestFrom(a, v), read() returning v
BusOp(op, a, v) == [op |-> op, a |-> a, v |-> v]

\* what the bus does in one cycle: the status endTransmission returns in a
\* read or write, the bytes it offers after requestFrom, the addresses that
\* acknowledge or fail in a scan, and the value an out-of-bounds read of
\* the two-wire buffer yields
DefaultEnv == [status |-> NO_ERROR, rd |-> <<>>, ack |-> {}, other |-> {},
               ub |-> 0]

\* the execution context of one cycle; offered records the bytes the bus
\* had ready after requestFrom
Ctx(c, e, out) ==
  [cmd |-> c, err |-> e, out |-> out, calls |-> <<>>, bus |-> <<>>,
   sets |-> 0, handler |-> "none", validated |-> FALSE, tokenized |-> FALSE,
   offered |-> <<>>, setAt |-> <<>>]

\* the bus answers requestFrom with the bytes rd
Offer(x, rd) == [x EXCEPT !.offered = rd]

\* Error::set called from the terminal, counted; setAt records how much
\* had been printed, sent on the bus and called back at each call
SetError(x, error_type) ==
  [x EXCEPT !.err = Error_set(x.err, error_type), !.sets = x.sets + 1,
            !.setAt = Append(x.setAt,
                             <<Len(x.out), Len(x.bus), Len(x.calls)>>)]

Emit(x, t, v) == [x EXCEPT !.out = Append(x.out, Tok(t, v))]

Bus(x, op, a, v) == [x EXCEPT !.bus = Append(x.bus, BusOp(op, a, v))]

---------------------------------------------------------------------------
(* Terminal: validation                                                    *)

\* the bytes isRxBufferDataValid lets pass (all branches before the '\0' one)
PermittedChar(c, delim) ==
  \/ c > 96 /\ c < 122
  \/ c > 47 /\ c < 58
  \/ c > 64 /\ c < 91
  \/ isSpace(c)
  \/ c = 44
  \/ c = 45
  \/ c = 46
  \/ c = 59
  \/ c = delim

\* validStep as it would be if an unrecognized byte ended the scan like
\* the terminating NUL does
validStep_breakOnUnknown(s, rx, delim, idx) ==
  IF s.stop # "" THEN s
  ELSE IF PermittedChar(rx[idx], delim) THEN [s EXCEPT !.idx = idx + 1]
  ELSE [s EXCEPT !.stop = "break"]

\* one pass of the for loop of isRxBufferDataValid, at idx; s.stop tells
\* whether the loop was left by break or by return
validStep(s, rx, delim, idx) ==
  IF s.stop # "" THEN s
  ELSE IF PermittedChar(rx[idx], delim) THEN [s EXCEPT !.idx = idx + 1]
  ELSE IF rx[idx] = NUL THEN [s EXCEPT !.stop = "break"]
  ELSE [s EXCEPT !.stop = "return"]

\* the passes for idx = lo..hi, in order, until the loop is left
RECURSIVE validFor(_, _, _, _, _)
validFor(s, rx, delim, lo, hi) ==
  IF lo = hi THEN validStep(s, rx, delim, lo)
  ELSE LET l == validFor(s, rx, delim, lo, (lo + hi) \div 2)
       IN IF l.stop # "" THEN l
          ELSE validFor(l, rx, delim, ((lo + hi) \div 2) + 1, hi)

\* the for loop of isRxBufferDataValid: the idx it ends with, or -1 when it
\* returns false on an unrecognized byte
ValidScan(rx, delim) ==
  LET s == validFor([idx |-> 0, stop |-> ""], rx, delim, 0,
                    TERM_CHAR_BUFFER_SIZE)
  IN IF s.stop = "return" THEN -1 ELSE s.idx

isRxBufferDataValid(x, delim) ==
  LET idx == ValidScan(x.cmd.serialRx, delim) IN
  IF idx = -1 THEN [ok |-> FALSE, x |-> SetError(x, "UnrecognizedInput")]
  ELSE IF idx = 0 THEN [ok |-> FALSE, x |-> SetError(x, "NoInput")]
  ELSE [ok |-> TRUE, x |-> [x EXCEPT !.validated = TRUE]]

---------------------------------------------------------------------------
(* Terminal: tokenizer                                                     *)

\* removeSpacesStep as it would be if it skipped every delimiter
removeSpacesStep_skipDelimiters(s, delim, i) ==
  LET c == s.cmd
      ch == s.cmd.serialRx[i]
      copy == [s EXCEPT !.cmd.data[s.data_index] = ch,
                        !.data_index = s.data_index + 1]
  IN
  IF s.stop # "" THEN s
  ELSE IF ch # delim THEN
    IF ch = NUL THEN
      IF s.data_index = 0 THEN [s EXCEPT !.stop = "return"]
      ELSE IF c.cmdLength = 0
      THEN [s EXCEPT !.cmd.cmdLength = s.data_index, !.stop = "break"]
      ELSE [s EXCEPT !.stop = "break"]
    ELSE IF ~isSpace(ch) THEN copy
    ELSE s
  ELSE
    IF c.pArgs = NULLPTR /\ s.data_index # 0
       /\ i # TERM_CHAR_BUFFER_SIZE - 1
    THEN [s EXCEPT !.cmd.pArgs = i + 1, !.cmd.iArgs = i,
                   !.cmd.cmdLength = s.data_index]
    ELSE s

\* one pass of the for loop of removeSpaces, at serialrx_index = i;
\* s.stop tells whether the loop was left by break or by return
removeSpacesStep(s, delim, i) ==
  LET c == s.cmd
      ch == s.cmd.serialRx[i]
      copy == [s EXCEPT !.cmd.data[s.data_index] = ch,
                        !.data_index = s.data_index + 1]
  IN
  IF s.stop # "" THEN s
  ELSE IF ch # delim THEN
    IF ch = NUL THEN
      IF s.data_index = 0 THEN [s EXCEPT !.stop = "return"]
      ELSE IF c.cmdLength = 0
      THEN [s EXCEPT !.cmd.cmdLength = s.data_index, !.stop = "break"]
      ELSE [s EXCEPT !.stop = "break"]
    ELSE IF ~isSpace(ch) THEN copy
    ELSE s
  ELSE
    IF c.pArgs = NULLPTR /\ s.data_index # 0
       /\ i # TERM_CHAR_BUFFER_SIZE - 1
    THEN [s EXCEPT !.cmd.pArgs = i + 1, !.cmd.iArgs = i,
                   !.cmd.cmdLength = s.data_index]
    ELSE IF ~isSpace(ch) THEN copy
    ELSE s

\* the passes for serialrx_index = lo..hi, in order, until the loop is left
RECURSIVE removeSpacesFor(_, _, _, _)
removeSpacesFor(s, delim, lo, hi) ==
  IF lo = hi THEN removeSpacesStep(s, delim, lo)
  ELSE LET l == removeSpacesFor(s, delim, lo, (lo + hi) \div 2)
       IN IF l.stop # "" THEN l
          ELSE removeSpacesFor(l, delim, ((lo + hi) \div 2) + 1, hi)

removeSpaces(x, delim) ==
  LET r == removeSpacesFor([cmd |-> x.cmd, data_index |-> 0, stop |-> ""],
                           delim, 0, TERM_CHAR_BUFFER_SIZE - 1)
  IN IF r.stop = "return" THEN [ok |-> FALSE, x |-> SetError(x, "NoInput")]
     ELSE [ok |-> TRUE,
           x |-> [x EXCEPT !.cmd = [r.cmd EXCEPT !.argsLength =
                                      U8(r.data_index - r.cmd.cmdLength)],
                           !.tokenized = TRUE]]

---------------------------------------------------------------------------
(* Terminal: user callbacks                                                *)

\* the loops over the registry as they would be if they kept the last k
\* whose name equals the token
FindCallback_lastMatch(token, cbs, num, k) ==
  IF \A j \in k..(num - 1) : strcmp(token, cbs[j]) # 0 THEN -1
  ELSE CHOOSE j \in k..(num - 1) :
         /\ strcmp(token, cbs[j]) = 0
         /\ \A i \in (j + 1)..(num - 1) : strcmp(token, cbs[i]) # 0

\* the loops over the registry: the first k from k on whose name equals the
\* token, or -1
RECURSIVE FindCallback(_, _, _, _)
FindCallback(token, cbs, num, k) ==
  IF k >= num THEN -1
  ELSE IF strcmp(token, cbs[k]) = 0 THEN k
  ELSE FindCallback(token, cbs, num, k + 1)

\* "remove leading whitespace": how many bytes the while loop advances
\* pArgs and iArgs, i.e. how many whitespace bytes stand at p, p+1, ...
SkipLeading(rx, p) ==
  Min({n \in 0..(TERM_CHAR_BUFFER_SIZE - p) :
         ~(rx[p + n] # NUL /\ isSpace(rx[p + n]))}) 

\* UserArgsLength as it would be if iArgs were the index of the first
\* argument byte instead of the byte before it: the count comes out one short
UserArgsLength_fromFirstByte(rx, iArgs) ==
  LET hit == {k \in (iArgs + 1)..TERM_CHAR_BUFFER_SIZE :
                rx[k] # NUL /\ ~isSpace(rx[k])}
  IN IF hit = {} THEN 0 ELSE U8(-Min({-k : k \in hit}) - (iArgs + 1))

\* "get char count for user args": the for loop from TERM_CHAR_BUFFER_SIZE
\* down to iArgs + 1 leaves at the first k (the greatest) whose byte is
\* neither NUL nor whitespace
UserArgsLength(rx, iArgs) ==
  LET hit == {k \in (iArgs + 1)..TERM_CHAR_BUFFER_SIZE :
                rx[k] # NUL /\ ~isSpace(rx[k])}
  IN IF hit = {} THEN 0 ELSE U8(-Min({-k : k \in hit}) - iArgs)

\* the callback is the host's code: the model records the call
Callback(x, k, ptr, len) ==
  [x EXCEPT !.calls = Append(x.calls, [k |-> k, ptr |-> ptr, len |-> len])]

\* runUserCallbacks as it would be if the branch for a line without
\* arguments handed the callback the raw line and its length
runUserCallbacks_rawLine(x, cbs, num) ==
  IF x.cmd.pArgs # NULLPTR THEN
    LET user_command == SubSeq(CStr(x.cmd.data, 0, TERM_CHAR_BUFFER_SIZE + 1),
                               1, x.cmd.cmdLength)
        k == FindCallback(user_command, cbs, num, 0)
    IN IF k = -1 THEN [ok |-> FALSE, x |-> x]
       ELSE LET skip == SkipLeading(x.cmd.serialRx, x.cmd.pArgs)
                c1 == [x.cmd EXCEPT !.pArgs = x.cmd.pArgs + skip,
                                    !.iArgs = U8(x.cmd.iArgs + skip)]
                user_args_length ==
                  UserArgsLength(c1.serialRx, c1.iArgs)
            IN [ok |-> TRUE,
                x |-> Callback([x EXCEPT !.cmd = c1], k, c1.pArgs,
                               user_args_length)]
  ELSE
    LET k == FindCallback(CStr(x.cmd.data, 0, TERM_CHAR_BUFFER_SIZE + 1),
                          cbs, num, 0)
    IN IF k = -1 THEN [ok |-> FALSE, x |-> x]
       ELSE [ok |-> TRUE, x |-> Callback(x, k, 0, x.cmd.index)]

runUserCallbacks(x, cbs, num) ==
  IF x.cmd.pArgs # NULLPTR THEN
    LET user_command == SubSeq(CStr(x.cmd.data, 0, TERM_CHAR_BUFFER_SIZE + 1),
                               1, x.cmd.cmdLength)
        k == FindCallback(user_command, cbs, num, 0)
    IN IF k = -1 THEN [ok |-> FALSE, x |-> x]
       ELSE LET skip == SkipLeading(x.cmd.serialRx, x.cmd.pArgs)
                c1 == [x.cmd EXCEPT !.pArgs = x.cmd.pArgs + skip,
                                    !.iArgs = U8(x.cmd.iArgs + skip)]
                user_args_length ==
                  UserArgsLength(c1.serialRx, c1.iArgs)
            IN [ok |-> TRUE,
                x |-> Callback([x EXCEPT !.cmd = c1], k, c1.pArgs,
                               user_args_length)]
  ELSE
    LET k == FindCallback(CStr(x.cmd.data, 0, TERM_CHAR_BUFFER_SIZE + 1),
                          cbs, num, 0)
    IN IF k = -1 THEN [ok |-> FALSE, x |-> x]
       ELSE [ok |-> TRUE, x |-> Callback(x, k, NULLPTR, 0)]

---------------------------------------------------------------------------
(* Terminal: two-wire built-ins                                            *)

\* "check for lower-case letters [a-f] and convert to upper-case"
HexUpper(t) == IF t > 96 /\ t < 103 THEN t - 32 ELSE t

\* the two branches of parseTwoWireData that accept a character
IsHexDigit(t) == (t > 47 /\ t < 58) \/ (t > 64 /\ t < 71)

\* "convert ASCII value to numeric"
HexValue(t) == IF t > 47 /\ t < 58 THEN t - 48 ELSE t - 55

\* the idx at which the for loop of parseTwoWireData is left: the first
\* whose character is NUL (break) or no hex digit (return false), or the
\* size of the two-wire buffer
parseStop(c) ==
  Min({k \in 0..(TERM_TWOWIRE_BUFFER_SIZE - 1) :
         \/ c.data[k + c.cmdLength] = NUL
         \/ ~IsHexDigit(HexUpper(c.data[k + c.cmdLength]))}
      \cup {TERM_TWOWIRE_BUFFER_SIZE})

\* the for loop of parseTwoWireData, left at idx = stop: the values it
\* stored before stop, the character it stored at stop when that is no hex
\* digit (bad), and the idx it ends with
parseLoopEnd(c, stop, bad) ==
  [bad |-> bad,
   cmd |-> [c EXCEPT !.twowire =
              [k \in 0..(TERM_TWOWIRE_BUFFER_SIZE - 1) |->
                 IF k < stop
                 THEN HexValue(HexUpper(c.data[k + c.cmdLength]))
                 ELSE IF k = stop /\ bad
                 THEN HexUpper(c.data[k + c.cmdLength])
                 ELSE c.twowire[k]]],
   idx |-> stop]

\* whether the loop, left at stop, was left by return false
parseBad(c, stop) ==
  stop < TERM_TWOWIRE_BUFFER_SIZE /\ c.data[stop + c.cmdLength] # NUL

\* the for loop of parseTwoWireData with the stop it reaches
parseLoopAt(c, stop) == parseLoopEnd(c, stop, parseBad(c, stop))

\* the for loop of parseTwoWireData
parseLoop(c) == parseLoopAt(c, parseStop(c))

\* the checks of parseTwoWireData after its for loop, which ended as r
parseTwoWireData_checks(x1, r) ==
  IF r.bad
  THEN [ok |-> FALSE, x |-> SetError(x1, "InvalidTwoWireCharacter")]
  ELSE IF r.idx < 3
  THEN [ok |-> FALSE, x |-> SetError(x1, "InvalidTwoWireCmdLength")]
  ELSE IF (r.idx \div 2) # ((r.idx + 1) \div 2)
  THEN [ok |-> FALSE, x |-> SetError(x1, "InvalidHexValuePair")]
  ELSE [ok |-> TRUE, x |-> x1]

\* parseTwoWireData from its for loop on
parseTwoWireData_loop(x, r) ==
  parseTwoWireData_checks([x EXCEPT !.cmd = r.cmd], r)

\* parseTwoWireData as it would be if it corrected cmdLength but not
\* argsLength for a command sent without delimiter
parseTwoWireData_noArgsFix(x) ==
  parseTwoWireData_loop(x, parseLoop([x.cmd EXCEPT !.cmdLength = 4]))

parseTwoWireData(x) ==
  parseTwoWireData_loop(
    x,
    parseLoop(IF x.cmd.cmdLength # 4
              THEN [x.cmd EXCEPT
                      !.argsLength =
                        U8(x.cmd.argsLength + x.cmd.cmdLength - 4),
                      !.cmdLength = 4]
              ELSE x.cmd))

\* print(value, HEX) is recorded as the token "HEX" with the value
printTwoWireAddress(x, i2c_address) ==
  Emit(Emit(x, IF i2c_address < 16 THEN "Address: 0x0" ELSE "Address: 0x", 0),
       "HEX", i2c_address)

printTwoWireRegister(x, i2c_register) ==
  Emit(Emit(x, IF i2c_register < 16 THEN "Register: 0x0" ELSE "Register: 0x",
            0),
       "HEX", i2c_register)

\* a read or write of twowire[k]; an index past the array is an
\* out-of-bounds access whose value the build decides
TwoWireAt(c, k, ub) == IF k < TERM_TWOWIRE_BUFFER_SIZE THEN c.twowire[k] ELSE ub

\* how many bytes the while loop of readTwoWire stores: all that the bus
\* offers, up to the room left in the two-wire buffer
readCount(offered, twi_read_index) ==
  IF Len(offered) <= TERM_TWOWIRE_BUFFER_SIZE - twi_read_index
  THEN Len(offered)
  ELSE TERM_TWOWIRE_BUFFER_SIZE - twi_read_index

\* the while loop of readTwoWire storing n bytes; it is left by return
\* false (exceeded) when the bus offers more
readLoopEnd(x, offered, twi_read_index, n) ==
  [exceeded |-> Len(offered) > n,
   x |-> [x EXCEPT
            !.cmd.twowire =
              [k \in 0..(TERM_TWOWIRE_BUFFER_SIZE - 1) |->
                 IF k >= twi_read_index /\ k < twi_read_index + n
                 THEN offered[k - twi_read_index + 1]
                 ELSE x.cmd.twowire[k]],
            !.bus = x.bus \o [i \in 1..n |-> BusOp("read", 0, offered[i])]],
   twi_read_index |-> twi_read_index + n]

\* the while loop of readTwoWire over the bytes the bus still offers
readLoop(x, offered, twi_read_index) ==
  readLoopEnd(x, offered, twi_read_index,
              readCount(offered, twi_read_index))

\* the for loop printing the bytes read: two prints for each
printReadData(x, k, twi_read_index) ==
  IF k >= twi_read_index THEN x
  ELSE [x EXCEPT !.out = x.out \o
          [i \in 1..(2 * (twi_read_index - k)) |->
             IF i % 2 = 1
             THEN Tok(IF x.cmd.twowire[k + ((i - 1) \div 2)] < 16
                      THEN " 0x0" ELSE " 0x", 0)
             ELSE Tok("HEX", x.cmd.twowire[k + ((i - 1) \div 2)])]]

\* the end of readTwoWire: the bytes read are printed
readTwoWire_print(x5, twi_read_index) ==
  [ok |-> TRUE,
   x |-> Emit(IF twi_read_index = 0
              THEN Emit(x5, " No Data Received", 0)
              ELSE printReadData(x5, 0, twi_read_index),
              "\n", 0)]

\* readTwoWire_received as it would be if a full two-wire buffer ended the
\* while loop with break instead of the read-length error
readTwoWire_received_breakWhenFull(r) ==
  readTwoWire_print(Emit(r.x, "Read Data:", 0), r.twi_read_index)

\* readTwoWire after its while loop, which ended as r
readTwoWire_received(r) ==
  IF r.exceeded
  THEN [ok |-> FALSE, x |-> SetError(r.x, "IncomingTwoWireReadLength")]
  ELSE readTwoWire_print(Emit(r.x, "Read Data:", 0), r.twi_read_index)

\* readTwoWire_request as it would be if it asked for as many bytes as the
\* argument has hex pairs
readTwoWire_request_pairCount(x3, i2c_address, env) ==
  IF env.status = NACK_ADDRESS
  THEN [ok |-> FALSE,
        x |-> Emit(x3, "Error: I2C read attempt recieved NACK", 0)]
  ELSE readTwoWire_received(
         readLoop(Offer(Bus(x3, "requestFrom", i2c_address,
                            U8(x3.cmd.argsLength \div 2)),
                        env.rd),
                  env.rd, 0))

\* readTwoWire_request as it would be if it went on after printing the
\* NACK line
readTwoWire_request_noReturn(x3, i2c_address, env) ==
  readTwoWire_received(
    readLoop(Offer(Bus(IF env.status = NACK_ADDRESS
                       THEN Emit(x3, "Error: I2C read attempt recieved NACK",
                                 0)
                       ELSE x3,
                       "requestFrom", i2c_address,
                       U8((x3.cmd.argsLength \div 2) - 1)),
                   env.rd),
             env.rd, 0))

\* readTwoWire after the transaction that writes the register address
readTwoWire_request(x3, i2c_address, env) ==
  IF env.status = NACK_ADDRESS
  THEN [ok |-> FALSE,
        x |-> Emit(x3, "Error: I2C read attempt recieved NACK", 0)]
  ELSE readTwoWire_received(
         readLoop(Offer(Bus(x3, "requestFrom", i2c_address,
                            U8((x3.cmd.argsLength \div 2) - 1)),
                        env.rd),
                  env.rd, 0))

\* readTwoWire as it would be without the flush of the two-wire buffer
FlushTwoWire_skipped(x) == x

\* this->command.flushTwoWire() in a cycle
FlushTwoWire(x) == [x EXCEPT !.cmd = Command_flushTwoWire(x.cmd)]

\* readTwoWire from the transcript header to the end of the first
\* transaction
readTwoWire_transaction(x, i2c_address, i2c_register, env) ==
  readTwoWire_request(
    Bus(Bus(Bus(FlushTwoWire(
                  printTwoWireRegister(
                    printTwoWireAddress(Emit(x, "I2C Read", 0), i2c_address),
                    i2c_register)),
                "beginTransmission", i2c_address, 0),
            "write", 0, i2c_register),
        "endTransmission", 0, env.status),
    i2c_address, env)

\* readTwoWire after parseTwoWireData returned p
readTwoWire_parsed(p, env) ==
  IF ~p.ok THEN p
  ELSE readTwoWire_transaction(
         p.x,
         U8(p.x.cmd.twowire[0] * 16 + p.x.cmd.twowire[1]),
         U8(p.x.cmd.twowire[2] * 16 + p.x.cmd.twowire[3]),
         env)

readTwoWire(x0, env) ==
  readTwoWire_parsed(
    parseTwoWireData([x0 EXCEPT !.handler = "readTwoWire"]), env)

\* the indices of the two-wire buffer the two for loops of writeTwoWire
\* read: k and k + 1 for k = 4, 6, ... below argsLength
writeTwoWire_indices(c) ==
  UNION {{k, k + 1} : k \in {j \in 4..(c.argsLength - 1) : j % 2 = 0}}

\* the byte written for the pair at k
WriteData(c, k, ub) == U8(16 * TwoWireAt(c, k, ub) + TwoWireAt(c, k + 1, ub))

\* the number of passes of for (k = from; k < argsLength; k += 2)
PairCount(c, from) ==
  IF c.argsLength > from THEN (c.argsLength - from + 1) \div 2 ELSE 0

\* the for loop writing the payload pairs to the bus
writeLoop(x, k, ub) ==
  [x EXCEPT !.bus = x.bus \o
     [i \in 1..PairCount(x.cmd, k) |->
        BusOp("write", 0, WriteData(x.cmd, k + 2 * (i - 1), ub))]]

\* the for loop printing the payload bytes: two prints for each
printWriteData(x, k, ub) ==
  [x EXCEPT !.out = x.out \o
     [i \in 1..(2 * PairCount(x.cmd, k)) |->
        IF i % 2 = 1
        THEN Tok(IF WriteData(x.cmd, k + 2 * ((i - 1) \div 2), ub) < 1
                 THEN " 0x0" ELSE " 0x", 0)
        ELSE Tok("HEX", WriteData(x.cmd, k + 2 * ((i - 1) \div 2), ub))]]

\* writeTwoWire after endTransmission
writeTwoWire_status(x3, env) ==
  IF env.status = NACK_ADDRESS
  THEN [ok |-> FALSE,
        x |-> Emit(x3, "Error: I2C write attempt recieved NACK", 0)]
  ELSE [ok |-> TRUE,
        x |-> Emit(printWriteData(Emit(x3, "Write Data:", 0), 4, env.ub),
                   "\n", 0)]

\* writeTwoWire from the transcript header to endTransmission
writeTwoWire_transaction(x, i2c_address, i2c_register, env) ==
  writeTwoWire_status(
    Bus(writeLoop(Bus(Bus(printTwoWireRegister(
                            printTwoWireAddress(Emit(x, "I2C Write", 0),
                                                i2c_address),
                            i2c_register),
                          "beginTransmission", i2c_address, 0),
                      "write", 0, i2c_register),
                  4, env.ub),
        "endTransmission", 0, env.status),
    env)

\* writeTwoWire_parsed as it would be without the check for a payload pair
writeTwoWire_parsed_noPayloadCheck(p, env) ==
  IF ~p.ok THEN p
  ELSE writeTwoWire_transaction(
         p.x,
         U8(p.x.cmd.twowire[0] * 16 + p.x.cmd.twowire[1]),
         U8(p.x.cmd.twowire[2] * 16 + p.x.cmd.twowire[3]),
         env)

\* writeTwoWire after parseTwoWireData returned p
writeTwoWire_parsed(p, env) ==
  IF ~p.ok THEN p
  ELSE IF p.x.cmd.argsLength < 6
  THEN [ok |-> FALSE, x |-> SetError(p.x, "InvalidTwoWireWriteData")]
  ELSE writeTwoWire_transaction(
         p.x,
         U8(p.x.cmd.twowire[0] * 16 + p.x.cmd.twowire[1]),
         U8(p.x.cmd.twowire[2] * 16 + p.x.cmd.twowire[3]),
         env)

writeTwoWire(x0, env) ==
  writeTwoWire_parsed(
    parseTwoWireData([x0 EXCEPT !.handler = "writeTwoWire"]), env)

\* the status the bus reports for the zero-length transaction to address
ScanStatus(env, address) ==
  IF address \in env.ack THEN NO_ERROR
  ELSE IF address \in env.other THEN TWI_OTHER
  ELSE NACK_ADDRESS

\* scanStep as it would be if an address answering with another error
\* were counted as a device
scanStep_countOther(env, address) ==
  LET error == ScanStatus(env, address) IN
  [bus |-> <<BusOp("beginTransmission", address, 0),
             BusOp("endTransmission", 0, error)>>,
   out |-> IF error \in {NO_ERROR, TWI_OTHER}
           THEN <<Tok(IF error = NO_ERROR THEN "I2C device found at "
                      ELSE "Unknown error at ", 0),
                  Tok(IF address < 16 THEN "Address: 0x0" ELSE "Address: 0x",
                      0),
                  Tok("HEX", address)>>
           ELSE <<>>,
   found |-> IF error \in {NO_ERROR, TWI_OTHER} THEN 1 ELSE 0]

\* one pass of the for loop of scanTwoWireBus: the bus calls, the prints
\* and whether the device count goes up
scanStep(env, address) ==
  LET error == ScanStatus(env, address) IN
  [bus |-> <<BusOp("beginTransmission", address, 0),
             BusOp("endTransmission", 0, error)>>,
   out |-> IF error \in {NO_ERROR, TWI_OTHER}
           THEN <<Tok(IF error = NO_ERROR THEN "I2C device found at "
                      ELSE "Unknown error at ", 0),
                  Tok(IF address < 16 THEN "Address: 0x0" ELSE "Address: 0x",
                      0),
                  Tok("HEX", address)>>
           ELSE <<>>,
   found |-> IF error = NO_ERROR THEN 1 ELSE 0]

\* what two runs of passes did, one after the other
scanJoin(l, h) ==
  [bus |-> l.bus \o h.bus, out |-> l.out \o h.out,
   found |-> l.found + h.found]

\* the passes of the for loop for the addresses lo..hi, in order
RECURSIVE scanLoop(_, _, _)
scanLoop(env, lo, hi) ==
  IF lo > hi THEN [bus |-> <<>>, out |-> <<>>, found |-> 0]
  ELSE IF lo = hi THEN scanStep(env, lo)
  ELSE scanJoin(scanLoop(env, lo, (lo + hi) \div 2),
                scanLoop(env, ((lo + hi) \div 2) + 1, hi))

\* the end of scanTwoWireBus: the count of the devices found
scanTwoWireBus_report(x2, device_count) ==
  [ok |-> TRUE,
   x |-> IF device_count = 0
         THEN Emit(x2, "No I2C devices found :(", 0)
         ELSE Emit(Emit(Emit(x2, "Scan complete, ", 0), "DEC", device_count),
                   " devices found!", 0)]

\* scanTwoWireBus with its for loop, which did r
scanTwoWireBus_loop(x1, r) ==
  scanTwoWireBus_report(
    [x1 EXCEPT !.bus = x1.bus \o r.bus, !.out = x1.out \o r.out],
    U8(r.found))

\* scanTwoWireBus_entered as it would be without the check for arguments
scanTwoWireBus_entered_noArgCheck(x, env) ==
  scanTwoWireBus_loop(
    Emit(x, "Scanning for available I2C devices...", 0),
    scanLoop(env, 1, 127))

\* scanTwoWireBus after the handler is entered
scanTwoWireBus_entered(x, env) ==
  IF x.cmd.argsLength + x.cmd.cmdLength > 4
  THEN [ok |-> FALSE, x |-> SetError(x, "UnrecognizedProtocol")]
  ELSE scanTwoWireBus_loop(
         Emit(x, "Scanning for available I2C devices...", 0),
         scanLoop(env, 1, 127))

scanTwoWireBus(x0, env) ==
  scanTwoWireBus_entered([x0 EXCEPT !.handler = "scanTwoWireBus"], env)

---------------------------------------------------------------------------
(* Terminal: dispatcher                                                    *)

\* serialCommandProcessor_builtins as it would be if the verbs were
\* recognized in lower case only
serialCommandProcessor_builtins_lowerCase(x, d, env) ==
  IF d[0] = 105 /\ d[1] = 50 /\ d[2] = 99
  THEN IF d[3] = 114 THEN readTwoWire(x, env)
       ELSE IF d[3] = 119 THEN writeTwoWire(x, env)
       ELSE [ok |-> FALSE, x |-> SetError(x, "UnrecognizedI2CTransType")]
  ELSE IF d[0] = 115 /\ d[1] = 99 /\ d[2] = 97 /\ d[3] = 110
  THEN scanTwoWireBus(x, env)
  ELSE [ok |-> FALSE, x |-> SetError(x, "UnrecognizedProtocol")]

\* the built-in verbs as they would be looked up if the branch of an
\* unrecognized i2c transaction type did not return
serialCommandProcessor_builtins_fallThrough(x, d, env) ==
  IF d[0] \in {105, 73} /\ d[1] = 50 /\ d[2] \in {99, 67}
  THEN IF d[3] \in {114, 82} THEN readTwoWire(x, env)
       ELSE IF d[3] \in {119, 87} THEN writeTwoWire(x, env)
       ELSE [ok |-> FALSE,
             x |-> SetError(SetError(x, "UnrecognizedI2CTransType"),
                            "UnrecognizedProtocol")]
  ELSE IF d[0] \in {115, 83} /\ d[1] \in {99, 67}
          /\ d[2] \in {97, 65} /\ d[3] \in {110, 78}
  THEN scanTwoWireBus(x, env)
  ELSE [ok |-> FALSE, x |-> SetError(x, "UnrecognizedProtocol")]

\* serialCommandProcessor after no user callback matched: the built-in
\* verbs, looked up in the compacted data d
serialCommandProcessor_builtins(x, d, env) ==
  IF d[0] \in {105, 73} /\ d[1] = 50 /\ d[2] \in {99, 67}
  THEN IF d[3] \in {114, 82} THEN readTwoWire(x, env)
       ELSE IF d[3] \in {119, 87} THEN writeTwoWire(x, env)
       ELSE [ok |-> FALSE, x |-> SetError(x, "UnrecognizedI2CTransType")]
  ELSE IF d[0] \in {115, 83} /\ d[1] \in {99, 67}
          /\ d[2] \in {97, 65} /\ d[3] \in {110, 78}
  THEN scanTwoWireBus(x, env)
  ELSE [ok |-> FALSE, x |-> SetError(x, "UnrecognizedProtocol")]

\* serialCommandProcessor after runUserCallbacks returned u
serialCommandProcessor_called(u, env) ==
  IF u.ok THEN u
  ELSE serialCommandProcessor_builtins(u.x, u.x.cmd.data, env)

\* serialCommandProcessor after removeSpaces returned t
serialCommandProcessor_tokenized(t, cbs, num, env) ==
  IF ~t.ok THEN t
  ELSE serialCommandProcessor_called(runUserCallbacks(t.x, cbs, num), env)

\* serialCommandProcessor after isRxBufferDataValid returned v
serialCommandProcessor_validated(v, delim, cbs, num, env) ==
  IF ~v.ok THEN v
  ELSE serialCommandProcessor_tokenized(removeSpaces(v.x, delim), cbs, num,
                                        env)

\* serialCommandProcessor as it would be if the built-in verbs were tried
\* before the user callbacks
serialCommandProcessor_builtinsFirst(x0, delim, cbs, num, env) ==
  LET v == isRxBufferDataValid(x0, delim) IN
  IF ~v.ok THEN v
  ELSE
    LET t == removeSpaces(v.x, delim) IN
    IF ~t.ok THEN t
    ELSE
      LET d == t.x.cmd.data
          u == runUserCallbacks(t.x, cbs, num)
      IN IF d[0] \in {105, 73} /\ d[1] = 50 /\ d[2] \in {99, 67}
         THEN IF d[3] \in {114, 82} THEN readTwoWire(t.x, env)
              ELSE IF d[3] \in {119, 87} THEN writeTwoWire(t.x, env)
              ELSE [ok |-> FALSE,
                    x |-> SetError(t.x, "UnrecognizedI2CTransType")]
         ELSE IF d[0] \in {115, 83} /\ d[1] \in {99, 67}
                 /\ d[2] \in {97, 65} /\ d[3] \in {110, 78}
         THEN scanTwoWireBus(t.x, env)
         ELSE IF u.ok THEN u
         ELSE [ok |-> FALSE, x |-> SetError(u.x, "UnrecognizedProtocol")]

serialCommandProcessor(x0, delim, cbs, num, env) ==
  serialCommandProcessor_validated(isRxBufferDataValid(x0, delim), delim, cbs,
                                   num, env)

\* one pass of the first while loop of Terminal::loop, reading avail[i];
\* s.n counts the bytes read
drainStep(s, avail, echoOn, i) ==
  IF s.cmd.overflow THEN s
  ELSE IF avail[i] = BACKSPACE
  THEN [cmd |-> Command_previous(s.cmd),
        out |-> IF echoOn /\ s.cmd.index > 0
                THEN Append(s.out, Tok("destructive backspace", 0))
                ELSE s.out,
        n |-> s.n + 1]
  ELSE [cmd |-> Command_next(s.cmd, avail[i]),
        out |-> IF echoOn THEN Append(s.out, Tok("echo", avail[i]))
                ELSE s.out,
        n |-> s.n + 1]

\* the passes reading avail[lo..hi], in order, until overflow
RECURSIVE drainFor(_, _, _, _, _)
drainFor(s, avail, echoOn, lo, hi) ==
  IF lo > hi THEN s
  ELSE IF lo = hi THEN drainStep(s, avail, echoOn, lo)
  ELSE LET l == drainFor(s, avail, echoOn, lo, (lo + hi) \div 2)
       IN IF l.cmd.overflow THEN l
          ELSE drainFor(l, avail, echoOn, ((lo + hi) \div 2) + 1, hi)

\* the first while loop of Terminal::loop over the bytes that are available
drainLoop(s, avail, echoOn) == drainFor(s, avail, echoOn, 1, Len(avail))

\* the discard loop of the overflow branch: how many bytes it reads, up to
\* and including the first line ending
discardLoop(avail) ==
  Min({i \in 1..Len(avail) : avail[i] = TERM_LINE_ENDING} \cup {Len(avail)})

\* what a call of loop is recorded to have done when it only drained
CycleBase(d) ==
  [kind |-> "idle", rx |-> d.cmd.serialRx, read |-> d.n, ok |-> TRUE,
   parsed |-> d.cmd, calls |-> <<>>, bus |-> <<>>, sets |-> 0,
   handler |-> "none", validated |-> FALSE, tokenized |-> FALSE,
   out |-> d.out, type |-> "NoError", offered |-> <<>>, setAt |-> <<>>]

\* the overflow branch of loop: the discard loop read k bytes, and x1 is
\* the cycle after lastError.set(InvalidSerialCmdLength)
loopOverflow(d, x1, k) ==
  [cmd |-> Command_reset(d.cmd),
   err |-> Error_clear(x1.err),
   prompt |-> TRUE,
   rec |-> [CycleBase(d) EXCEPT
              !.kind = "overflow", !.read = d.n + k, !.ok = FALSE,
              !.sets = x1.sets, !.setAt = x1.setAt,
              !.out = Append(x1.out, Tok(x1.err.message, 0)),
              !.type = x1.err.type]]

\* the branch of loop for a complete line: serialCommandProcessor
\* returned p
loopComplete(d, p) ==
  [cmd |-> Command_reset(p.x.cmd),
   err |-> IF p.x.err.flag THEN Error_clear(p.x.err) ELSE p.x.err,
   prompt |-> TRUE,
   rec |-> [CycleBase(d) EXCEPT
              !.kind = "dispatch", !.ok = p.ok, !.parsed = p.x.cmd,
              !.calls = p.x.calls, !.bus = p.x.bus, !.sets = p.x.sets,
              !.handler = p.x.handler, !.validated = p.x.validated,
              !.tokenized = p.x.tokenized, !.offered = p.x.offered,
              !.setAt = p.x.setAt,
              !.out = IF p.x.err.flag
                      THEN Append(p.x.out, Tok(p.x.err.message, 0))
                      ELSE p.x.out,
              !.type = p.x.err.type]]

\* loop after its first while loop, which ended as d
loopBranches(d, err0, prompt0, delim, cbs, num, avail, env) ==
  IF d.cmd.overflow
  THEN loopOverflow(d,
                    SetError(Ctx(d.cmd, err0, d.out),
                             "InvalidSerialCmdLength"),
                    discardLoop(SubSeq(avail, d.n + 1, Len(avail))))
  ELSE IF d.cmd.complete
  THEN loopComplete(d,
                    serialCommandProcessor(Ctx(d.cmd, err0, d.out), delim,
                                           cbs, num, env))
  ELSE [cmd |-> d.cmd, err |-> err0, prompt |-> prompt0,
        rec |-> CycleBase(d)]

\* the end of loop: the prompt, when isNewTerminalCommandPrompt is set
loopPrompt(r) ==
  [cmd |-> r.cmd, err |-> r.err, prompt |-> FALSE,
   rec |-> IF r.prompt
           THEN [r.rec EXCEPT !.out = Append(r.rec.out, Tok(">> ", 0))]
           ELSE r.rec]

\* one call of Terminal::loop that finds the bytes avail on the transport
\* (those already there and those arriving while it runs): the state it
\* leaves and the record of what it did
loopResult(cmd0, err0, prompt0, echoOn, delim, cbs, num, avail, env) ==
  loopPrompt(
    loopBranches(drainLoop([cmd |-> cmd0, out |-> <<>>, n |-> 0], avail,
                           echoOn),
                 err0, prompt0, delim, cbs, num, avail, env))

---------------------------------------------------------------------------
(* The explored environment                                                *)

\* "a"
NameA == <<97>>

\* "scan"
NameScan == <<115, 99, 97, 110>>

\* "i2c"
NameI2c == <<105, 50, 99>>

\* the names the host may bind in setup()
Names == {NameA, NameScan, NameI2c}

\* the delimiters the terminal may be constructed with: ' ' and ','
Delimiters == {TERM_DEFAULT_CMD_DELIMITER, 44}

\* 'a', ' ', line ending, backspace, '!', NUL
Alphabet == {97, 32, TERM_LINE_ENDING, BACKSPACE, 33, NUL}

\* all byte sequences over Alphabet of length 0..MaxLen
ShortInputs == UNION {[1..n -> Alphabet] : n \in 0..MaxLen}

\* n copies of byte c
Fill(c, n) == [i \in 1..n |-> c]

\* user-command lines: a name, a separator (' ' or ','), an argument text
\* (none, "on", " On x", a tab) and a tail (none or a space)
CommandInputs ==
  {tok \o <<sep>> \o arg \o tail \o <<TERM_LINE_ENDING>> :
     tok \in Names,
     sep \in {32, 44},
     arg \in {<<>>, <<111, 110>>, <<32, 79, 110, 32, 120>>, <<9>>},
     tail \in {<<>>, <<32>>}}

\* built-in lines, malformed lines, edited lines and two lines in a row:
\* "scan", "SCAN", "Scan 1", "i2c r 3102", "i2cr3102", "I2C W 310203",
\* "i2c w 3102", "i2c r 310", "i2c r 31G2", "i2c r 3aFf0000", "i2c x", "b",
\* "a;", "a z", "a<NUL>!", "ab<BS>", "a,,on", "a !", "A", ",", "sca n", "a" then
\* "scan", an empty line then "scan"
OtherInputs ==
  {l \o <<TERM_LINE_ENDING>> :
     l \in {NameScan, <<83, 67, 65, 78>>, <<83, 99, 97, 110, 32, 49>>,
            <<105, 50, 99, 32, 114, 32, 51, 49, 48, 50>>,
            <<105, 50, 99, 114, 51, 49, 48, 50>>,
            <<73, 50, 67, 32, 87, 32, 51, 49, 48, 50, 48, 51>>,
            <<105, 50, 99, 32, 119, 32, 51, 49, 48, 50>>,
            <<105, 50, 99, 32, 114, 32, 51, 49, 48>>,
            <<105, 50, 99, 32, 114, 32, 51, 49, 71, 50>>,
            <<105, 50, 99, 32, 114, 32, 51, 97, 70, 102, 48, 48, 48, 48>>,
            <<105, 50, 99, 32, 120>>,
            <<98>>, <<97, 59>>, <<97, 32, 122>>, <<97, NUL, 33>>,
            <<97, 98, BACKSPACE>>, <<97, 44, 44, 111, 110>>, <<97, 32, 33>>,
            <<65>>, <<44>>, <<115, 99, 97, 32, 110>>,
            <<97, TERM_LINE_ENDING>> \o NameScan,
            <<TERM_LINE_ENDING>> \o NameScan}}

\* "i2c r " and "i2c w "
ReadPrefix == <<105, 50, 99, 32, 114, 32>>

WritePrefix == <<105, 50, 99, 32, 119, 32>>

\* "3102": address 0x31, register 0x02
Hex3102 == <<51, 49, 48, 50>>

\* two-wire lines: reads with 0, 2 and 10 hex characters ("i2c r",
\* "i2c r 31", "i2c r 31 02 00 00 00"), a read with a character that
\* validation rejects ("i2c r 3!"), a write of two bytes in both letter
\* cases ("i2c w 31020a0B"), a write with half a payload pair
\* ("i2c w 31020"), a write of the bytes 0x00 and 0x10
\* ("i2c w 31020010"), a write whose 30 hex characters fill the
\* two-wire buffer, a write of 32 hex characters, a read of 31 hex
\* characters, and a read of 30 hex characters followed by 'G'
TwoWireInputs ==
  {l \o <<TERM_LINE_ENDING>> :
     l \in {<<105, 50, 99, 32, 114>>,
            ReadPrefix \o <<51, 49>>,
            ReadPrefix \o <<51, 49, 32, 48, 50, 32, 48, 48, 32, 48, 48, 32,
                            48, 48>>,
            ReadPrefix \o <<51, 33>>,
            WritePrefix \o Hex3102 \o <<48, 97, 48, 66>>,
            WritePrefix \o Hex3102 \o <<48>>,
            WritePrefix \o Hex3102 \o <<48, 48, 49, 48>>,
            WritePrefix \o Hex3102 \o Fill(53, TERM_TWOWIRE_BUFFER_SIZE - 4),
            WritePrefix \o Hex3102 \o Fill(53, TERM_TWOWIRE_BUFFER_SIZE - 4)
              \o <<49, 50>>,
            ReadPrefix \o Hex3102 \o Fill(48, TERM_TWOWIRE_BUFFER_SIZE - 3),
            ReadPrefix \o Hex3102 \o Fill(48, TERM_TWOWIRE_BUFFER_SIZE - 4)
              \o <<71>>}}

\* lines around the capacity of the line buffer: a line that just fits, a
\* line one byte too long, an unterminated over-long line followed by
\* "a\n", a short line followed at once by an over-long one, and a line
\* that fills the buffer, takes a byte back and goes on
LongInputs ==
  {Fill(97, TERM_CHAR_BUFFER_SIZE) \o <<TERM_LINE_ENDING>>,
   Fill(32, TERM_CHAR_BUFFER_SIZE) \o <<TERM_LINE_ENDING>>,
   Fill(97, TERM_CHAR_BUFFER_SIZE + 1) \o <<TERM_LINE_ENDING>>,
   Fill(97, TERM_CHAR_BUFFER_SIZE + 2) \o <<32, 97, TERM_LINE_ENDING>>,
   <<97, TERM_LINE_ENDING>> \o Fill(97, TERM_CHAR_BUFFER_SIZE + 1),
   Fill(97, TERM_CHAR_BUFFER_SIZE) \o <<BACKSPACE, 97, 97, TERM_LINE_ENDING>>}

\* the streams the peer may send: all of them with the echo off, the short
\* and the special ones with the echo on
Inputs(echoOn) ==
  IF echoOn THEN ShortInputs \cup OtherInputs
  ELSE ShortInputs \cup CommandInputs \cup OtherInputs \cup TwoWireInputs
         \cup LongInputs

\* the streams sent to a terminal with more than MaxBind bindings: "a",
\* "a on" and "scan"
CrowdedInputs ==
  {l \o <<TERM_LINE_ENDING>> : l \in {NameA, <<97, 32, 111, 110>>, NameScan}}

\* values the count may hold after the store behind the table: the low
\* byte of the stored pointer plus one, any value of a uint8_t
OverwrittenCounts == {0, 1, MAX_USER_COMMANDS + 1, 255}

\* what the bus may do in a cycle that reaches it
Envs ==
  {[status |-> st, rd |-> rd, ack |-> sc[1], other |-> sc[2], ub |-> ub] :
     st \in {NO_ERROR, NACK_ADDRESS, TWI_OTHER},
     rd \in {<<>>, <<171>>, <<5, 171>>,
             Fill(7, TERM_TWOWIRE_BUFFER_SIZE + 1)},
     sc \in {<<{}, {}>>, <<{49}, {}>>, <<{49, 127}, {1}>>},
     ub \in {0, 255}}

\* the part of the bus behaviour a handler looks at
EnvsFor(handler) ==
  IF handler = "readTwoWire"
  THEN {e \in Envs : e.ack = {} /\ e.other = {} /\ e.ub = 0}
  ELSE IF handler = "writeTwoWire"
  THEN {e \in Envs : e.ack = {} /\ e.other = {} /\ e.rd = <<>>}
  ELSE IF handler = "scanTwoWireBus"
  THEN {e \in Envs : e.status = NO_ERROR /\ e.rd = <<>> /\ e.ub = 0}
  ELSE {DefaultEnv}

---------------------------------------------------------------------------
(* The state machine                                                       *)

\* after construction of the Terminal object, before setup()
Init ==
  /\ pc = "setup"
  /\ userCharCallbacks = [k \in 0..(MAX_USER_COMMANDS - 1) |-> <<>>]
  /\ numUserCharCallbacks = 0
  /\ isEchoEnabled = FALSE
  /\ isNewTerminalCommandPrompt = TRUE
  /\ termCommandDelimiter \in Delimiters
  /\ lastError = Error_Init
  /\ command = Command_Init
  /\ input = <<>>
  /\ pos = 0
  /\ cyc = [kind |-> "none", rx |-> Command_Init.serialRx,
            ok |-> TRUE, parsed |-> Command_Init,
            calls |-> <<>>, bus |-> <<>>, sets |-> 0, handler |-> "none",
            validated |-> FALSE, tokenized |-> FALSE, out |-> <<>>,
            type |-> "NoError", offered |-> <<>>, setAt |-> <<>>,
            from |-> 0,
            lineStart |-> 0, stale |-> FALSE, nth |-> 0]

\* Terminal::onCommand, called in setup(). The host binds any of Names up
\* to MaxBind times and may go on binding "a". The entry is stored at
\* userCharCallbacks[numUserCharCallbacks] without a test of the count:
\* with MAX_USER_COMMANDS entries in the table the store lands on the
\* members declared after it (the count, the two flags and the delimiter)
\* and the count is incremented afterwards, so these members hold any of
\* the values of OverwrittenCounts, BOOLEAN and Delimiters; the execution
\* is not followed further (pc = "undefined")
onCommand(name) ==
  /\ pc = "setup"
  /\ numUserCharCallbacks < MaxBind \/ name = NameA
  /\ IF numUserCharCallbacks < MAX_USER_COMMANDS
     THEN /\ userCharCallbacks' =
               [userCharCallbacks EXCEPT ![numUserCharCallbacks] = name]
          /\ numUserCharCallbacks' = numUserCharCallbacks + 1
          /\ UNCHANGED <<pc, isEchoEnabled, isNewTerminalCommandPrompt,
                         termCommandDelimiter>>
     ELSE /\ pc' = "undefined"
          /\ userCharCallbacks' = userCharCallbacks
          /\ numUserCharCallbacks' \in OverwrittenCounts
          /\ isEchoEnabled' \in BOOLEAN
          /\ isNewTerminalCommandPrompt' \in BOOLEAN
          /\ termCommandDelimiter' \in Delimiters
  /\ UNCHANGED <<lastError, command, input, pos, cyc>>

\* Terminal::echo, called in setup()
echo(enable_terminal_echo) ==
  /\ pc = "setup"
  /\ isEchoEnabled # enable_terminal_echo
  /\ isEchoEnabled' = enable_terminal_echo
  /\ UNCHANGED <<pc, userCharCallbacks, numUserCharCallbacks,
                 isNewTerminalCommandPrompt, termCommandDelimiter, lastError,
                 command, input, pos, cyc>>

\* setup() returns; from here on the peer sends the bytes of input
setupDone ==
  /\ pc = "setup"
  /\ pc' = "loop"
  /\ input' \in IF numUserCharCallbacks > MaxBind THEN CrowdedInputs
               ELSE Inputs(isEchoEnabled)
  /\ UNCHANGED <<userCharCallbacks, numUserCharCallbacks, isEchoEnabled,
                 isNewTerminalCommandPrompt, termCommandDelimiter, lastError,
                 command, pos, cyc>>

\* the numbers of bytes a call of loop may find
BatchSizes ==
  {n \in 0..(Len(input) - pos) : n <= MaxBatch \/ n = Len(input) - pos}

\* the record of a call of loop: what loopResult reports, the stream
\* position from where the bytes of its raw buffer were read (from) and
\* where the next line starts (lineStart), whether the bytes that come next
\* still belong to a line that overflowed (stale: the overflow branch ended
\* without reading a line ending), and whether it is the first call (nth)
CycleRecord(rec, old, to, last) ==
  [kind |-> rec.kind, rx |-> rec.rx, ok |-> rec.ok, parsed |-> rec.parsed,
   calls |-> rec.calls, bus |-> rec.bus, sets |-> rec.sets,
   handler |-> rec.handler, validated |-> rec.validated,
   tokenized |-> rec.tokenized, out |-> rec.out, type |-> rec.type,
   offered |-> rec.offered, setAt |-> rec.setAt,
   from |-> old.lineStart,
   lineStart |-> IF rec.kind \in {"overflow", "dispatch"} THEN to
                 ELSE old.lineStart,
   stale |-> IF rec.kind = "overflow" THEN last # TERM_LINE_ENDING
             ELSE IF rec.kind = "dispatch" THEN FALSE
             ELSE old.stale,
   nth |-> IF old.nth < 2 THEN old.nth + 1 ELSE 2]

\* Terminal::loop with n bytes on the transport; the bus behaviour is
\* chosen only in a call that reaches a built-in handler
loop(n) ==
  /\ pc = "loop"
  /\ n \in BatchSizes
  /\ \E r0 \in {loopResult(command, lastError, isNewTerminalCommandPrompt,
                           isEchoEnabled, termCommandDelimiter,
                           userCharCallbacks, numUserCharCallbacks,
                           SubSeq(input, pos + 1, pos + n), DefaultEnv)} :
       \E env \in EnvsFor(r0.rec.handler) :
         \E r \in {IF env = DefaultEnv THEN r0
                   ELSE loopResult(command, lastError,
                                   isNewTerminalCommandPrompt, isEchoEnabled,
                                   termCommandDelimiter, userCharCallbacks,
                                   numUserCharCallbacks,
                                   SubSeq(input, pos + 1, pos + n), env)} :
           /\ command' = r.cmd
           /\ lastError' = r.err
           /\ isNewTerminalCommandPrompt' = r.prompt
           /\ pos' = pos + r.rec.read
           /\ cyc' = CycleRecord(r.rec, cyc, pos + r.rec.read,
                                 IF pos + r.rec.read = 0 THEN NUL
                                 ELSE input[pos + r.rec.read])
  /\ UNCHANGED <<pc, userCharCallbacks, numUserCharCallbacks, isEchoEnabled,
                 termCommandDelimiter, input>>

Next ==
  \/ \E name \in Names : onCommand(name)
  \/ \E b \in BOOLEAN : echo(b)
  \/ setupDone
  \/ \E n \in 0..(Len(input) - pos) : loop(n)

Spec == Init /\ [][Next]_vars

---------------------------------------------------------------------------
(* Vocabulary of the properties                                            *)

Max(S) == CHOOSE m \in S : \A n \in S : m >= n

\* the last call of loop ran serialCommandProcessor on a completed line
Dispatched == pc = "loop" /\ cyc.kind = "dispatch"

\* the line the last call of loop found in the raw buffer: the bytes stored
\* before index
RawLine == [i \in 1..cyc.parsed.index |-> cyc.rx[i - 1]]

\* the stream bytes read since the raw buffer was last empty
Fed == SubSeq(input, cyc.from + 1, pos)

\* every byte of the line is one that validation lets pass
ValidLine ==
  /\ RawLine # <<>>
  /\ \A i \in 1..Len(RawLine) : PermittedChar(RawLine[i], termCommandDelimiter)

\* the command token the tokenizer left behind
Token ==
  IF cyc.parsed.pArgs # NULLPTR
  THEN SubSeq(CStr(cyc.parsed.data, 0, TERM_CHAR_BUFFER_SIZE + 1), 1,
              cyc.parsed.cmdLength)
  ELSE CStr(cyc.parsed.data, 0, TERM_CHAR_BUFFER_SIZE + 1)

\* the indices of the registry in use
Bound == 0..(numUserCharCallbacks - 1)

\* the line is name, delimiter, rest
HasForm(name) ==
  /\ Len(RawLine) > Len(name)
  /\ SubSeq(RawLine, 1, Len(name)) = name
  /\ RawLine[Len(name) + 1] = termCommandDelimiter

\* the text of the line after the delimiter that follows name
ArgText(name) == SubSeq(RawLine, Len(name) + 2, Len(RawLine))

\* s without its leading and trailing whitespace
Trimmed(s) ==
  LET keep == {i \in 1..Len(s) : ~isSpace(s[i])}
  IN IF keep = {} THEN <<>> ELSE SubSeq(s, Min(keep), Max(keep))

\* the bytes of the raw buffer a callback was handed
Slice(call) == [i \in 1..call.len |-> cyc.rx[call.ptr + i - 1]]

\* the line with its whitespace removed
Compacted == SelectSeq(RawLine, LAMBDA c : ~isSpace(c))

\* no built-in handler ran: no bus operation, and nothing on the transport
\* but the echo of the typed bytes and the prompt
NoBuiltin ==
  /\ cyc.handler = "none"
  /\ cyc.bus = <<>>
  /\ \A i \in 1..Len(cyc.out) :
       cyc.out[i].t \in {"echo", "destructive backspace", ">> "}

\* exactly one callback was invoked, the one bound to name
InvokedOnce(name) ==
  /\ Len(cyc.calls) = 1
  /\ cyc.calls[1].k = Min({k \in Bound : userCharCallbacks[k] = name})

---------------------------------------------------------------------------
(* Properties                                                              *)

\* C1: user commands take precedence over built-ins. Whenever a name bound
\* in the registry is a built-in verb ("scan" or "i2c") and a completed,
\* valid line has exactly that name as its command token, the call of loop
\* invokes the bound callback, once, and runs no built-in handler: no bus
\* operation is issued and no built-in transcript is printed.
C1_UserPrecedence ==
  \A k \in Bound :
    (/\ Dispatched
     /\ ValidLine
     /\ cyc.tokenized
     /\ userCharCallbacks[k] \in {NameScan, NameI2c}
     /\ Token = userCharCallbacks[k])
    => InvokedOnce(userCharCallbacks[k]) /\ NoBuiltin

\* C1 happens: "i2c r 3102", a well-formed built-in read, is dispatched to
\* the callback bound to "i2c"
C1_Witness ==
  /\ Dispatched
  /\ RawLine = <<105, 50, 99, 32, 114, 32, 51, 49, 48, 50>>
  /\ termCommandDelimiter = 32
  /\ numUserCharCallbacks > 0
  /\ userCharCallbacks[0] = NameI2c
  /\ Len(cyc.calls) = 1
  /\ cyc.bus = <<>>

\* C2 (as amended): for every registered name N and every completed line
\* that passes validation and has the form N, delimiter, argument text with
\* at least one non-whitespace byte, loop invokes N's callback exactly once,
\* runs no built-in, and hands it a pointer into the raw buffer and a length
\* whose slice is the text after the first delimiter without its leading
\* and trailing whitespace, interior bytes unchanged.
C2_ArgumentSlice ==
  \A k \in Bound :
    (/\ Dispatched
     /\ ValidLine
     /\ HasForm(userCharCallbacks[k])
     /\ Trimmed(ArgText(userCharCallbacks[k])) # <<>>)
    => /\ InvokedOnce(userCharCallbacks[k])
       /\ cyc.handler = "none"
       /\ cyc.calls[1].ptr \in 0..TERM_CHAR_BUFFER_SIZE
       /\ Slice(cyc.calls[1]) = Trimmed(ArgText(userCharCallbacks[k]))

\* C2 happens: "a  On x " is dispatched to the callback of "a" with the
\* slice "On x", and so "a on" with "on", of length 2
C2_Witness ==
  /\ Dispatched
  /\ termCommandDelimiter = 32
  /\ RawLine = <<97, 32, 32, 79, 110, 32, 120, 32>>
  /\ Len(cyc.calls) = 1
  /\ cyc.calls[1].len = 4
  /\ Slice(cyc.calls[1]) = <<79, 110, 32, 120>>

\* C2 as stated: the same for every completed line of the form N,
\* delimiter, argument text, whether or not it passes validation.
C2_AsStated ==
  \A k \in Bound :
    (/\ Dispatched
     /\ HasForm(userCharCallbacks[k])
     /\ Trimmed(ArgText(userCharCallbacks[k])) # <<>>)
    => /\ InvokedOnce(userCharCallbacks[k])
       /\ Slice(cyc.calls[1]) = Trimmed(ArgText(userCharCallbacks[k]))

\* C3: for every completed, valid line without an occurrence of the
\* delimiter, no argument pointer is recorded and the compacted line is the
\* command token; if it equals a registered name, that callback is invoked,
\* once, with the null pointer and length 0.
C3_BareToken ==
  (/\ Dispatched
   /\ ValidLine
   /\ \A i \in 1..Len(RawLine) : RawLine[i] # termCommandDelimiter)
  => /\ cyc.parsed.pArgs = NULLPTR
     /\ Token = Compacted
     /\ \A k \in Bound :
          userCharCallbacks[k] = Compacted
          => /\ InvokedOnce(Compacted)
             /\ cyc.calls[1].ptr = NULLPTR
             /\ cyc.calls[1].len = 0
             /\ NoBuiltin

\* C3 happens: with ',' as the delimiter a line holding "a" and whitespace
\* is dispatched to the callback of "a"
C3_Witness ==
  /\ Dispatched
  /\ ValidLine
  /\ \A i \in 1..Len(RawLine) : RawLine[i] # termCommandDelimiter
  /\ Len(RawLine) > Len(Compacted)
  /\ numUserCharCallbacks > 0
  /\ userCharCallbacks[0] = Compacted
  /\ cyc.calls = <<[k |-> 0, ptr |-> NULLPTR, len |-> 0]>>

\* C4: when a line is a registered name followed by the delimiter and then
\* nothing, or only whitespace, the callback is invoked with the null
\* pointer and a size of zero.
C4_NoArguments ==
  \A k \in Bound :
    (/\ Dispatched
     /\ ValidLine
     /\ HasForm(userCharCallbacks[k])
     /\ Trimmed(ArgText(userCharCallbacks[k])) = <<>>)
    => /\ InvokedOnce(userCharCallbacks[k])
       /\ cyc.calls[1].ptr = NULLPTR
       /\ cyc.calls[1].len = 0

\* the bytes of s
Bytes(s) == {s[i] : i \in 1..Len(s)}

\* s is one line: its last byte is the line ending, and its only one
OneLine(s) ==
  /\ Len(s) >= 1
  /\ s[Len(s)] = TERM_LINE_ENDING
  /\ \A i \in 1..(Len(s) - 1) : s[i] # TERM_LINE_ENDING

\* C5 (as amended): for every input line of fewer than C bytes, none of
\* them a backspace, that ends with the line terminator and is fed to a
\* freshly reset terminal in any number of batches, the call of loop that
\* reads the terminator finds the line complete and dispatches it, and the
\* raw buffer then holds the line without its terminator and NUL after it.
C5_LineStored ==
  (/\ pc = "loop"
   /\ OneLine(Fed)
   /\ Len(Fed) - 1 < TERM_CHAR_BUFFER_SIZE
   /\ BACKSPACE \notin Bytes(Fed))
  => /\ cyc.kind = "dispatch"
     /\ RawLine = SubSeq(Fed, 1, Len(Fed) - 1)
     /\ \A i \in Len(RawLine)..TERM_CHAR_BUFFER_SIZE : cyc.rx[i] = NUL

\* C5 happens: a line of several bytes, read in more than one call of loop,
\* is dispatched with the raw buffer equal to it
C5_Witness ==
  /\ pc = "loop"
  /\ OneLine(Fed)
  /\ BACKSPACE \notin Bytes(Fed)
  /\ Len(Fed) > MaxBatch + 1
  /\ Len(Fed) < Len(input)
  /\ cyc.kind = "dispatch"
  /\ RawLine = SubSeq(Fed, 1, Len(Fed) - 1)

\* C5 as stated: the same for every line of fewer than C bytes, backspace
\* bytes included.
C5_AsStated ==
  (/\ pc = "loop"
   /\ OneLine(Fed)
   /\ Len(Fed) - 1 < TERM_CHAR_BUFFER_SIZE)
  => /\ cyc.kind = "dispatch"
     /\ RawLine = SubSeq(Fed, 1, Len(Fed) - 1)

\* C6 (as amended): for every input without a line terminator and without
\* a backspace whose length exceeds C, fed to an empty buffer, the call of
\* loop that reads byte C + 1 ends in the overflow branch, the raw buffer
\* holds exactly the first C bytes, and no later byte is stored.
C6_Overflow ==
  (/\ pc = "loop"
   /\ Len(Fed) > TERM_CHAR_BUFFER_SIZE
   /\ TERM_LINE_ENDING \notin Bytes(Fed)
   /\ BACKSPACE \notin Bytes(Fed))
  => /\ cyc.kind = "overflow"
     /\ cyc.parsed.overflow
     /\ cyc.parsed.index = TERM_CHAR_BUFFER_SIZE
     /\ RawLine = SubSeq(Fed, 1, TERM_CHAR_BUFFER_SIZE)
     /\ cyc.rx[TERM_CHAR_BUFFER_SIZE] = NUL

\* C6 happens: overflow is reached in the middle of a batch, with bytes of
\* the burst left after byte C + 1
C6_Witness ==
  /\ pc = "loop"
  /\ Len(Fed) > TERM_CHAR_BUFFER_SIZE + 1
  /\ TERM_LINE_ENDING \notin Bytes(Fed)
  /\ cyc.kind = "overflow"
  /\ RawLine = SubSeq(Fed, 1, TERM_CHAR_BUFFER_SIZE)

\* C6 as stated: overflow as soon as the length of a terminator-free input
\* reaches C.
C6_AsStated ==
  (/\ pc = "loop"
   /\ Len(Fed) >= TERM_CHAR_BUFFER_SIZE
   /\ TERM_LINE_ENDING \notin Bytes(Fed)
   /\ BACKSPACE \notin Bytes(Fed))
  => cyc.kind = "overflow"

\* C7: overflow resynchronization. After an overflow, as long as the line
\* ending of the over-long line has not been read, a call of loop stores
\* no byte in the raw buffer, dispatches nothing and prints no further
\* error, however the bytes are spread over the calls.
C7_Resync ==
  [][(pc = "loop" /\ cyc.stale)
     => /\ command'.index = 0
        /\ cyc'.kind # "dispatch"
        /\ cyc'.calls = <<>>
        /\ cyc'.handler = "none"]_vars

\* the error lines a call of loop wrote: the message of lastError, or the
\* NACK line of a read or write
ErrorKinds ==
  {"InvalidSerialCmdLength", "UnrecognizedInput", "NoInput",
   "UnrecognizedProtocol", "UnrecognizedI2CTransType",
   "InvalidTwoWireCharacter", "InvalidTwoWireCmdLength",
   "InvalidHexValuePair", "IncomingTwoWireReadLength",
   "InvalidTwoWireWriteData",
   "Error: I2C read attempt recieved NACK",
   "Error: I2C write attempt recieved NACK"}

ErrorLines == {i \in 1..Len(cyc.out) : cyc.out[i].t \in ErrorKinds}

Prompts == {i \in 1..Len(cyc.out) : cyc.out[i].t = ">> "}

\* C8: a call of loop that handles a completed line or an overflow writes
\* exactly one error line when the cycle fails and none when it succeeds,
\* and the last thing it writes is the prompt, written once; a call that
\* completes no cycle writes no error line and, unless it is the first call
\* after construction, no prompt.
C8_ErrorAndPrompt ==
  pc = "loop" =>
    /\ cyc.kind \in {"dispatch", "overflow"}
       => /\ Cardinality(ErrorLines) = (IF cyc.ok THEN 0 ELSE 1)
          /\ Prompts = {Len(cyc.out)}
    /\ cyc.kind = "idle"
       => /\ ErrorLines = {}
          /\ Prompts = (IF cyc.nth = 1 THEN {Len(cyc.out)} ELSE {})

\* C8 happens: a successful scan after an earlier cycle, with its transcript
\* and the prompt and no error line
C8_Witness ==
  /\ pc = "loop"
  /\ cyc.kind = "dispatch"
  /\ cyc.ok
  /\ cyc.from > 0
  /\ cyc.handler = "scanTwoWireBus"
  /\ ErrorLines = {}
  /\ Prompts = {Len(cyc.out)}

\* the number of callbacks and built-in handlers a call of loop invoked
Invocations(c) == Len(c.calls) + (IF c.handler = "none" THEN 0 ELSE 1)

\* C9: a call of loop runs serialCommandProcessor at most once and invokes
\* at most one user callback or built-in handler, however many line
\* terminators it reads, and runs no dispatch when it reads none.
C9_OneDispatch ==
  [][pc = "loop"
     => /\ Invocations(cyc') <= 1
        /\ (Invocations(cyc') = 1 \/ cyc'.validated \/ cyc'.tokenized)
           => cyc'.kind = "dispatch"
        /\ cyc'.kind = "dispatch"
           => TERM_LINE_ENDING \in Bytes(SubSeq(input, pos + 1, pos'))]_vars

\* C9 happens: one call reads a terminator, "scan" and a second terminator,
\* and dispatches once
C9_Witness ==
  /\ pc = "loop"
  /\ cyc.kind = "dispatch"
  /\ Fed = <<TERM_LINE_ENDING>> \o NameScan \o <<TERM_LINE_ENDING>>
  /\ RawLine = NameScan
  /\ Invocations(cyc) = 1

\* the characters the claim lists; the code accepts ';' as well
Listed(c) ==
  \/ c \in 97..122
  \/ c \in 65..90
  \/ c \in 48..57
  \/ c = termCommandDelimiter
  \/ isSpace(c)
  \/ c \in {45, 46, 44}

\* the bytes validation scans: those before the first NUL
Scanned == CStr(cyc.rx, 0, TERM_CHAR_BUFFER_SIZE + 1)

\* the cycle ended in validation with the unrecognized-character error
Rejected ==
  /\ ~cyc.ok
  /\ ~cyc.validated
  /\ ~cyc.tokenized
  /\ cyc.type = "UnrecognizedInput"
  /\ cyc.sets = 1
  /\ cyc.calls = <<>>
  /\ cyc.handler = "none"
  /\ cyc.bus = <<>>
  /\ cyc.parsed.data = Command_Init.data

\* C10 (as amended): validation rejects, with the unrecognized-character
\* error and before any tokenization or dispatch, every dispatched line
\* that holds, before its first NUL byte if it has one, a byte that is not
\* an ASCII letter, a digit, the delimiter, whitespace, '-', '.', ',' or ';'.
C10_Rejects ==
  (/\ Dispatched
   /\ \E i \in 1..Len(Scanned) : ~Listed(Scanned[i]) /\ Scanned[i] # 59)
  => Rejected

\* C10 happens: "a !" is rejected at its third byte
C10_Witness ==
  /\ Dispatched
  /\ RawLine = <<97, 32, 33>>
  /\ Rejected

\* C10 as stated: the same for every byte outside the listed set, ';'
\* included (lines with a NUL byte left aside).
C10_AsStated ==
  (/\ Dispatched
   /\ NUL \notin Bytes(RawLine)
   /\ \E i \in 1..Len(RawLine) : ~Listed(RawLine[i]))
  => Rejected

\* C11: validation returns true for every non-empty completed line all of
\* whose bytes are allowed characters (a lower-case letter a-z, an
\* upper-case letter A-Z, a digit, the delimiter, whitespace, '-', '.' or
\* ','): such a line is never reported as unrecognized input.
C11_AcceptsAllowed ==
  (/\ Dispatched
   /\ RawLine # <<>>
   /\ \A i \in 1..Len(RawLine) : Listed(RawLine[i]))
  => cyc.validated /\ cyc.type # "UnrecognizedInput"

\* the line holds nothing but whitespace and delimiter bytes
NoContent ==
  \A i \in 1..Len(RawLine) :
    isSpace(RawLine[i]) \/ RawLine[i] = termCommandDelimiter

\* C12: every completed line with no command content (empty, or of any
\* length up to the capacity and made only of whitespace and delimiter
\* bytes) ends its cycle with the no-input error; so whenever command
\* matching is reached, the command token is not empty.
C12_NoContent ==
  Dispatched =>
    /\ NoContent => ~cyc.ok /\ cyc.type = "NoInput" /\ ~cyc.tokenized
    /\ cyc.tokenized => Token # <<>>

\* the compacted line the tokenizer left behind
Data == CStr(cyc.parsed.data, 0, TERM_CHAR_BUFFER_SIZE + 1)

\* s begins with the word w, letters taken in either case
BeginsWith(s, w) ==
  /\ Len(s) >= Len(w)
  /\ \A i \in 1..Len(w) :
       (IF s[i] \in 65..90 THEN s[i] + 32 ELSE s[i]) = w[i]

\* no bound name equals the token
Unbound == \A k \in Bound : userCharCallbacks[k] # Token

\* the cycle set the unrecognized-protocol error, and that error only,
\* invoked no callback and issued no bus transaction
UnrecognizedProtocolOnly ==
  /\ ~cyc.ok
  /\ cyc.type = "UnrecognizedProtocol"
  /\ cyc.sets = 1
  /\ cyc.calls = <<>>
  /\ cyc.bus = <<>>

\* C13 (as amended): for every completed line that passes validation, has
\* a non-empty token that equals no registered name (letter case counts)
\* and whose compacted form begins neither with "i2c" nor with "scan" (in
\* any letter case), the cycle sets exactly the unrecognized-protocol error,
\* invokes no callback and issues no bus transaction.
C13_Unrecognized ==
  (/\ Dispatched
   /\ cyc.validated
   /\ cyc.tokenized
   /\ Token # <<>>
   /\ Unbound
   /\ ~BeginsWith(Data, NameI2c)
   /\ ~BeginsWith(Data, NameScan))
  => UnrecognizedProtocolOnly

\* C13 happens: with "a" bound, the line "A" matches nothing
C13_Witness ==
  /\ Dispatched
  /\ RawLine = <<65>>
  /\ numUserCharCallbacks > 0
  /\ userCharCallbacks[0] = NameA
  /\ UnrecognizedProtocolOnly

\* C13 as stated: the same for every valid line whose token, the text
\* before the first delimiter, is not empty, equals no registered name, does
\* not begin with "i2c" and is not "scan".
C13_AsStated ==
  (/\ Dispatched
   /\ cyc.validated
   /\ cyc.tokenized
   /\ Token # <<>>
   /\ Unbound
   /\ ~BeginsWith(Token, NameI2c)
   /\ ~(Len(Token) = 4 /\ BeginsWith(Token, NameScan)))
  => UnrecognizedProtocolOnly

\* the last call of loop ran the read or the write built-in
TwoWireCommand ==
  Dispatched /\ cyc.handler \in {"readTwoWire", "writeTwoWire"}

\* the argument of the two-wire command: the compacted line after its
\* first four characters
HexArg == SubSeq(Data, 5, Len(Data))

\* c is one of 0-9, A-F, a-f
HexChar(c) == c \in (48..57) \cup (65..70) \cup (97..102)

\* the value of the hex digit c
Nibble(c) ==
  IF c \in 48..57 THEN c - 48
  ELSE IF c \in 65..70 THEN c - 55
  ELSE c - 87

\* the argument consists of hex digits
AllHex == \A i \in 1..Len(HexArg) : HexChar(HexArg[i])

\* the number of whole hex pairs of the argument
Pairs == Len(HexArg) \div 2

\* the byte value of the i-th hex pair of the argument
Pair(i) == 16 * Nibble(HexArg[2 * i - 1]) + Nibble(HexArg[2 * i])

\* an accepted two-wire argument: an even number, at least 4, of hex digits
AcceptedArg == AllHex /\ Len(HexArg) >= 4 /\ Len(HexArg) % 2 = 0

\* C14: hex decoding. For every accepted two-wire argument the target
\* address is the value of the first hex pair, the register the value of
\* the second pair and payload byte i the value of pair i+2, each 16 * high
\* nibble + low nibble with a-f folded to A-F.
C14_HexDecoding ==
  (TwoWireCommand /\ AcceptedArg /\ cyc.bus # <<>>)
  => /\ Len(cyc.bus) >= 2
     /\ cyc.bus[1] = BusOp("beginTransmission", Pair(1), 0)
     /\ cyc.bus[2] = BusOp("write", 0, Pair(2))
     /\ cyc.handler = "writeTwoWire" =>
          /\ Len(cyc.bus) >= Pairs
          /\ \A i \in 1..(Pairs - 2) :
               cyc.bus[2 + i] = BusOp("write", 0, Pair(i + 2))

\* C15: for every read or write command whose argument consists of n hex
\* digits, n < 3 gives the invalid-two-wire-command-length error, every odd
\* n >= 3 gives the invalid-hex-value-pair error, and only an even n >= 4
\* is accepted; on either error no bus transaction is issued.
C15_HexLength ==
  (TwoWireCommand /\ AllHex)
  => /\ Len(HexArg) < 3 =>
          ~cyc.ok /\ cyc.type = "InvalidTwoWireCmdLength" /\ cyc.bus = <<>>
     /\ (Len(HexArg) >= 3 /\ Len(HexArg) % 2 = 1) =>
          ~cyc.ok /\ cyc.type = "InvalidHexValuePair" /\ cyc.bus = <<>>
     /\ cyc.bus # <<>> => Len(HexArg) >= 4 /\ Len(HexArg) % 2 = 0

\* C16: for every read or write command whose argument holds, at any
\* position, a character other than 0-9, a-f, A-F, the cycle ends with the
\* invalid-two-wire-character error and no bus transaction is issued.
C16_HexCharacter ==
  (TwoWireCommand /\ ~AllHex)
  => ~cyc.ok /\ cyc.type = "InvalidTwoWireCharacter" /\ cyc.bus = <<>>

\* the positions of the bus log with a call of op
Ops(op) == {i \in 1..Len(cyc.bus) : cyc.bus[i].op = op}

\* the positions of the transcript with the text t
Printed(t) == {i \in 1..Len(cyc.out) : cyc.out[i].t = t}

\* the last call of loop ran the read built-in on an accepted argument
ReadCommand == Dispatched /\ cyc.handler = "readTwoWire" /\ AcceptedArg

\* the register-select transaction of the read was address-NACKed
ReadNacked ==
  Len(cyc.bus) >= 3 /\ cyc.bus[3] = BusOp("endTransmission", 0, NACK_ADDRESS)

\* C17: a read command whose argument has p hex pairs (p >= 2) issues
\* exactly one write transaction to the decoded address that carries only
\* the register byte and, if that is not address-NACKed, exactly one
\* request for p - 1 bytes from the same address.
C17_ReadRequest ==
  ReadCommand
  => /\ Len(cyc.bus) >= 3
     /\ cyc.bus[1] = BusOp("beginTransmission", Pair(1), 0)
     /\ cyc.bus[2] = BusOp("write", 0, Pair(2))
     /\ cyc.bus[3].op = "endTransmission"
     /\ Ops("beginTransmission") = {1}
     /\ Ops("write") = {2}
     /\ Ops("endTransmission") = {3}
     /\ IF ReadNacked THEN Ops("requestFrom") = {}
        ELSE /\ Ops("requestFrom") = {4}
             /\ cyc.bus[4] = BusOp("requestFrom", Pair(1), Pairs - 1)

\* C17 happens: "i2c r 31 02 00 00 00" asks address 0x31 for 4 bytes
C17_Witness ==
  /\ ReadCommand
  /\ HexArg = <<51, 49, 48, 50, 48, 48, 48, 48, 48, 48>>
  /\ Len(cyc.bus) >= 4
  /\ cyc.bus[4] = BusOp("requestFrom", 49, 4)

\* C18: when the bus reports address-NACK for the register-select
\* transaction of a read, the read prints the NACK error and nothing more
\* for that command: no byte request is issued, no byte is read and no
\* "Read Data" line is printed.
C18_ReadNack ==
  (ReadCommand /\ ReadNacked)
  => /\ ~cyc.ok
     /\ Len(cyc.bus) = 3
     /\ Ops("requestFrom") = {} /\ Ops("read") = {}
     /\ cyc.parsed.twowire = Command_Init.twowire
     /\ Printed("Read Data:") = {}
     /\ \E i \in Printed("Error: I2C read attempt recieved NACK") :
          /\ i = Len(cyc.out) - 1
          /\ cyc.out[Len(cyc.out)].t = ">> "

\* C18 happens: "i2c r 3102" with no device at 0x31
C18_Witness ==
  /\ ReadCommand
  /\ ReadNacked
  /\ HexArg = Hex3102
  /\ Printed("Error: I2C read attempt recieved NACK") # {}

\* C19: during a read, arriving bytes are stored only at two-wire buffer
\* indices below its capacity W; if the bus offers more than W bytes the
\* cycle ends with the read-length-exceeded error, without printing any read
\* data (the only numbers printed are the address and the register) and
\* without writing outside the buffer.
C19_ReadBounded ==
  (ReadCommand /\ ~ReadNacked)
  => /\ Cardinality(Ops("read")) <= TERM_TWOWIRE_BUFFER_SIZE
     /\ Cardinality(Ops("read")) <= Len(cyc.offered)
     /\ DOMAIN cyc.parsed.twowire = 0..(TERM_TWOWIRE_BUFFER_SIZE - 1)
     /\ \A k \in 0..(TERM_TWOWIRE_BUFFER_SIZE - 1) :
          cyc.parsed.twowire[k] =
            IF k < Len(cyc.offered) THEN cyc.offered[k + 1] ELSE 0
     /\ cyc.parsed.serialRx = cyc.rx
     /\ cyc.parsed.cmdLength = 4
     /\ cyc.parsed.argsLength = Len(HexArg)
     /\ Len(cyc.offered) > TERM_TWOWIRE_BUFFER_SIZE =>
          /\ ~cyc.ok
          /\ cyc.type = "IncomingTwoWireReadLength"
          /\ Printed("Read Data:") = {}
          /\ Cardinality(Printed("HEX")) = 2

\* C19 happens: the device answers "i2c r 3102" with W + 1 bytes
C19_Witness ==
  /\ ReadCommand
  /\ Len(cyc.offered) = TERM_TWOWIRE_BUFFER_SIZE + 1
  /\ Cardinality(Ops("read")) = TERM_TWOWIRE_BUFFER_SIZE
  /\ cyc.type = "IncomingTwoWireReadLength"

\* C20: a write command with n >= 1 payload pairs issues exactly one bus
\* transaction, to the address of the first pair, in which the bytes
\* written are the register (the second pair) followed by the n payload
\* bytes in input order, and nothing else.
C20_WriteTransaction ==
  (/\ Dispatched
   /\ cyc.handler = "writeTwoWire"
   /\ AcceptedArg
   /\ Pairs >= 3)
  => \E status \in twi_error_type_t :
       cyc.bus = <<BusOp("beginTransmission", Pair(1), 0)>>
                 \o [i \in 1..(Pairs - 1) |-> BusOp("write", 0, Pair(i + 1))]
                 \o <<BusOp("endTransmission", 0, status)>>

\* the last call of loop ran the write built-in
WriteCommand == Dispatched /\ cyc.handler = "writeTwoWire"

\* the cycle ended with the invalid-write-data error, and that error only,
\* and issued no bus transaction
InvalidWriteData ==
  /\ ~cyc.ok
  /\ cyc.type = "InvalidTwoWireWriteData"
  /\ cyc.sets = 1
  /\ cyc.bus = <<>>
  /\ Printed("I2C Write") = {}

\* C21 (as amended): a write command whose argument is exactly an address
\* pair and a register pair (4 hex characters, no payload) ends the cycle
\* with the invalid-write-data error and issues no bus transaction.
C21_NoPayload ==
  (WriteCommand /\ AllHex /\ Len(HexArg) = 4) => InvalidWriteData

\* C21 happens: "i2c w 3102"
C21_Witness ==
  /\ WriteCommand
  /\ HexArg = Hex3102
  /\ InvalidWriteData

\* C21 as stated: the same for every argument that has an address and a
\* register and fewer than 6 hex characters.
C21_AsStated ==
  (WriteCommand /\ AllHex /\ Len(HexArg) \in {4, 5}) => InvalidWriteData

\* the token that precedes the digits of value v in an echo 0xHH: print(v,
\* HEX) prints one digit for v < 16 and two otherwise
TwoDigitPrefix(v) == IF v < 16 THEN " 0x0" ELSE " 0x"

\* the echo of the payload bytes of the write, each as 0xHH
PayloadEcho ==
  [j \in 1..(2 * (Pairs - 2)) |->
     IF j % 2 = 1
     THEN Tok(TwoDigitPrefix(Pair(((j + 1) \div 2) + 2)), 0)
     ELSE Tok("HEX", Pair((j \div 2) + 2))]

\* C22: after a write that is not address-NACKed, every written payload
\* byte, whatever its value, is echoed in the "Write Data:" line as a token
\* 0xHH with exactly two hex digits (arguments that fit the two-wire
\* buffer).
C22_WriteEcho ==
  (/\ WriteCommand
   /\ cyc.ok
   /\ AcceptedArg
   /\ Len(HexArg) <= TERM_TWOWIRE_BUFFER_SIZE)
  => \E i \in Printed("Write Data:") :
       /\ Len(cyc.out) >= i + Len(PayloadEcho)
       /\ SubSeq(cyc.out, i + 1, i + Len(PayloadEcho)) = PayloadEcho

\* the last call of loop ran a scan of the bus
ScanRan == Dispatched /\ cyc.handler = "scanTwoWireBus" /\ cyc.ok

\* the addresses whose transaction ended with the status st
Answered(st) ==
  {a \in 1..127 : cyc.bus[2 * a] = BusOp("endTransmission", 0, st)}

\* the text printed before an address so that it shows two hex digits
TwoDigitAddress(v) == IF v < 16 THEN "Address: 0x0" ELSE "Address: 0x"

\* the numbers printed in the transcript, in order
Numbers == SelectSeq(cyc.out, LAMBDA tok : tok.t = "HEX")

\* C23: a scan issues exactly one zero-length transaction to each 7-bit
\* address 1..127, in ascending order and to no other address, prints every
\* address whose status is ack or other-error and skips the rest, and its
\* summary reports a device count equal to the number of addresses that
\* acknowledged, or that no device was found when that number is zero.
C23_Scan ==
  ScanRan
  => /\ Len(cyc.bus) = 2 * 127
     /\ \A a \in 1..127 :
          /\ cyc.bus[2 * a - 1] = BusOp("beginTransmission", a, 0)
          /\ cyc.bus[2 * a].op = "endTransmission"
     /\ Len(Numbers) = Cardinality(Answered(NO_ERROR) \cup Answered(TWI_OTHER))
     /\ \A i \in 1..Len(Numbers) :
          /\ Numbers[i].v \in Answered(NO_ERROR) \cup Answered(TWI_OTHER)
          /\ i > 1 => Numbers[i].v > Numbers[i - 1].v
     /\ \A i \in Printed("HEX") :
          /\ i > 2
          /\ cyc.out[i - 1].t = TwoDigitAddress(cyc.out[i].v)
          /\ cyc.out[i - 2].t =
               IF cyc.out[i].v \in Answered(NO_ERROR)
               THEN "I2C device found at " ELSE "Unknown error at "
     /\ Cardinality(Printed("I2C device found at "))
          = Cardinality(Answered(NO_ERROR))
     /\ Cardinality(Printed("Unknown error at "))
          = Cardinality(Answered(TWI_OTHER))
     /\ cyc.out[Len(cyc.out)].t = ">> "
     /\ IF Answered(NO_ERROR) = {}
        THEN /\ cyc.out[Len(cyc.out) - 1].t = "No I2C devices found :("
             /\ Printed("Scan complete, ") = {}
        ELSE /\ cyc.out[Len(cyc.out) - 3].t = "Scan complete, "
             /\ cyc.out[Len(cyc.out) - 2]
                  = Tok("DEC", Cardinality(Answered(NO_ERROR)))
             /\ cyc.out[Len(cyc.out) - 1].t = " devices found!"
             /\ Printed("No I2C devices found :(") = {}

\* C23 happens: devices at 0x31 and 0x7F acknowledge, address 1 answers
\* with another error; two devices are reported
C23_Witness ==
  /\ ScanRan
  /\ Answered(NO_ERROR) = {49, 127}
  /\ Answered(TWI_OTHER) = {1}
  /\ Tok("DEC", 2) \in Bytes(cyc.out)

\* the byte c is whitespace or the delimiter
Separator(c) == isSpace(c) \/ c = termCommandDelimiter

\* the line is the word "scan", in any letter case, with nothing but
\* whitespace and delimiters before and after it
ScanAlone ==
  \E i \in 1..Len(RawLine) :
    /\ i + 3 <= Len(RawLine)
    /\ BeginsWith(SubSeq(RawLine, i, i + 3), NameScan)
    /\ \A j \in 1..Len(RawLine) : (j < i \/ j > i + 3) => Separator(RawLine[j])

\* C24 (as amended): a line that passes validation, matches no user
\* command and whose compacted form is "scan" (any letter case) followed by
\* at least one more character is rejected with the unrecognized-protocol
\* error and issues no bus transaction; a scan starts only for a line whose
\* compacted form is exactly "scan".
C24_ScanArguments ==
  /\ (/\ Dispatched
      /\ cyc.validated
      /\ cyc.tokenized
      /\ cyc.calls = <<>>
      /\ BeginsWith(Data, NameScan)
      /\ Len(Data) > 4)
     => UnrecognizedProtocolOnly
  /\ ScanRan => Len(Data) = 4 /\ BeginsWith(Data, NameScan)

\* C24 happens: "Scan 1" is rejected
C24_Witness ==
  /\ Dispatched
  /\ RawLine = <<83, 99, 97, 110, 32, 49>>
  /\ cyc.handler = "scanTwoWireBus"
  /\ UnrecognizedProtocolOnly

\* C24 as stated: a scan starts only for the word "scan" with nothing but
\* whitespace and delimiters around it.
C24_AsStated == ScanRan => ScanAlone

\* what the bus did in the last cycle, as far as the cycle shows it: the
\* status of its first transaction, the bytes it offered and the addresses
\* that answered a scan; ub is the value of a read past the two-wire buffer
ObservedEnv(ub) ==
  [status |-> IF Ops("endTransmission") = {} THEN NO_ERROR
              ELSE cyc.bus[Min(Ops("endTransmission"))].v,
   rd |-> cyc.offered,
   ack |-> IF ScanRan THEN Answered(NO_ERROR) ELSE {},
   other |-> IF ScanRan THEN Answered(TWI_OTHER) ELSE {},
   ub |-> ub]

\* the record of the cycle in which a terminal with the same delimiter and
\* registry, echo off, reads the line and its line ending in one call
Reference(line, env) ==
  loopResult(Command_Init, Error_Init, FALSE, FALSE, termCommandDelimiter,
             userCharCallbacks, numUserCharCallbacks,
             line \o <<TERM_LINE_ENDING>>, env).rec

\* what a cycle did apart from echoing the typed bytes: the decoded
\* two-wire buffer, the lengths, the bus operations, the result and the
\* transcript
Outcome(rec) ==
  [twowire |-> rec.parsed.twowire, cmdLength |-> rec.parsed.cmdLength,
   argsLength |-> rec.parsed.argsLength, bus |-> rec.bus, ok |-> rec.ok,
   type |-> rec.type, handler |-> rec.handler,
   out |-> SelectSeq(rec.out, LAMBDA tok :
                       tok.t \notin {"echo", "destructive backspace"})]

\* the only separators of the line are whitespace
SpacedOnly ==
  \A i \in 1..Len(RawLine) :
    RawLine[i] = termCommandDelimiter => isSpace(RawLine[i])

Lowered(s) == [i \in 1..Len(s) |-> IF s[i] \in 65..90 THEN s[i] + 32 ELSE s[i]]

\* the bus operations and the transport output of a cycle, the echo of the
\* typed bytes left aside
Effects(rec) == [bus |-> Outcome(rec).bus, out |-> Outcome(rec).out]

\* the line passed validation and its compacted form begins with a
\* built-in verb
BuiltinLine ==
  /\ Dispatched
  /\ cyc.validated
  /\ cyc.tokenized
  /\ BeginsWith(Data, NameI2c) \/ BeginsWith(Data, NameScan)

---------------------------------------------------------------------------
(* Registry capacity and uniqueness, line completion, cursor range         *)

\* C27: onCommand called with MAX_USER_COMMANDS bindings in the registry
\* fails: the number of bindings never exceeds MAX_USER_COMMANDS and no
\* entry is written outside the table.
C27_Capacity ==
  /\ pc # "undefined"
  /\ numUserCharCallbacks <= MAX_USER_COMMANDS

\* the entries of the table that hold a binding
Held == {k \in Bound : k < MAX_USER_COMMANDS}

\* C28: after any sequence of onCommand calls the names held in the
\* registry are pairwise distinct by exact comparison.
C28_UniqueNames ==
  \A j \in Held : \A k \in Held :
    j # k => userCharCallbacks[j] # userCharCallbacks[k]

\* the position of the first line ending in s
FirstEnding(s) == Min({i \in 1..Len(s) : s[i] = TERM_LINE_ENDING})

\* C29: once the line ending has been fed the buffer accepts no further
\* byte until it is reset: the line dispatched is made of the bytes fed
\* before the first line ending only (no backspace among the bytes fed).
C29_CompleteStops ==
  (Dispatched /\ BACKSPACE \notin Bytes(Fed))
  => RawLine = SubSeq(Fed, 1, FirstEnding(Fed) - 1)

\* C30: in every reachable state the write index is within
\* 0..TERM_CHAR_BUFFER_SIZE, the bytes are stored below position
\* TERM_CHAR_BUFFER_SIZE (every position from the index on holds NUL), and
\* position TERM_CHAR_BUFFER_SIZE holds the terminator, in the buffer as it
\* is left by a call of loop and as it was when the call had read its
\* bytes.
C30_CursorRange ==
  /\ command.index \in 0..TERM_CHAR_BUFFER_SIZE
  /\ DOMAIN command.serialRx = 0..TERM_CHAR_BUFFER_SIZE
  /\ command.serialRx[TERM_CHAR_BUFFER_SIZE] = NUL
  /\ \A i \in command.index..TERM_CHAR_BUFFER_SIZE : command.serialRx[i] = NUL
  /\ cyc.parsed.index \in 0..TERM_CHAR_BUFFER_SIZE
  /\ DOMAIN cyc.rx = 0..TERM_CHAR_BUFFER_SIZE
  /\ cyc.rx[TERM_CHAR_BUFFER_SIZE] = NUL
  /\ \A i \in cyc.parsed.index..TERM_CHAR_BUFFER_SIZE : cyc.rx[i] = NUL

\* C30 happens: the buffer is full (index = TERM_CHAR_BUFFER_SIZE, every
\* position below it holds a byte of the line) after bytes were fed and
\* one was taken back and fed again
C30_Witness ==
  /\ pc = "loop"
  /\ BACKSPACE \in Bytes(SubSeq(input, 1, pos))
  /\ command.index = TERM_CHAR_BUFFER_SIZE
  /\ ~command.overflow
  /\ \A i \in 0..(TERM_CHAR_BUFFER_SIZE - 1) : command.serialRx[i] = 97
  /\ command.serialRx[TERM_CHAR_BUFFER_SIZE] = NUL

---------------------------------------------------------------------------
(* State at the end of a cycle                                             *)

\* the call of loop handled a completed line or an overflow
Handled == pc = "loop" /\ cyc.kind \in {"dispatch", "overflow"}

\* C31: whenever loop returns after handling a completed line or an
\* overflow, the whole Command state equals that of a freshly constructed
\* instance, and applying reset again, once or twice, leaves it unchanged.
C31_ResetState ==
  Handled
  => /\ command = Command_Init
     /\ Command_reset(cyc.parsed) = Command_Init
     /\ Command_reset(command) = command
     /\ Command_reset(Command_reset(command)) = command

\* C31 happens: a write command left the raw buffer, the compacted buffer,
\* the two-wire buffer, the lengths, the argument pointer and the complete
\* flag set, and loop returned with a fresh Command state
C31_Witness ==
  /\ Handled
  /\ cyc.parsed.complete
  /\ cyc.parsed.index > 0
  /\ cyc.parsed.pArgs # NULLPTR
  /\ cyc.parsed.cmdLength = 4
  /\ cyc.parsed.argsLength > 0
  /\ cyc.parsed.twowire # Command_Init.twowire
  /\ cyc.parsed.data # Command_Init.data
  /\ cyc.parsed.serialRx # Command_Init.serialRx
  /\ command = Command_Init

\* the messages of lastError, as opposed to the NACK lines that readTwoWire
\* and writeTwoWire print themselves
Messages ==
  ErrorKinds \ {"Error: I2C read attempt recieved NACK",
                "Error: I2C write attempt recieved NACK"}

\* the messages of lastError a call of loop printed
MessageLines == {i \in 1..Len(cyc.out) : cyc.out[i].t \in Messages}

\* C32: at every return of loop the error state is clear (flag false,
\* warning false, kind NoError); an error set in a cycle is printed in that
\* cycle, once, and a cycle that sets no error prints no error message.
C32_ErrorCleared ==
  pc = "loop"
  => /\ ~lastError.flag
     /\ ~lastError.warning
     /\ lastError.type = "NoError"
     /\ cyc.sets > 0
        => /\ Cardinality(MessageLines) = 1
           /\ \A i \in MessageLines : cyc.out[i].t = cyc.type
     /\ cyc.sets = 0 => MessageLines = {}

\* C32 happens: a line is dispatched without error and nothing of the error
\* of an earlier cycle (whose text is still in the message buffer) is
\* printed
C32_Witness ==
  /\ Dispatched
  /\ cyc.ok
  /\ cyc.sets = 0
  /\ lastError.message # "NoError"
  /\ lastError = [Error_Init EXCEPT !.message = lastError.message]
  /\ MessageLines = {}

\* the NACK line a read or write handler printed itself
NackLines ==
  {i \in 1..Len(cyc.out) :
     cyc.out[i].t \in {"Error: I2C read attempt recieved NACK",
                       "Error: I2C write attempt recieved NACK"}}

ReadDataAt == Max(Printed("Read Data:"))

\* C34: bytes never leak between uses of the two-wire buffer. The buffer is
\* all zeros whenever loop is called, and a read that prints "Read Data:"
\* prints exactly the bytes the bus returned for it, in arrival order, and
\* leaves nothing else in the buffer: neither the nibbles of the address and
\* register nor bytes of an earlier cycle.
C34_NoLeak ==
  /\ pc = "loop" => command.twowire = Command_Init.twowire
  /\ (Dispatched /\ Printed("Read Data:") # {})
     => /\ Len(cyc.offered) <= TERM_TWOWIRE_BUFFER_SIZE
        /\ \A k \in 1..Len(cyc.offered) :
             /\ cyc.out[ReadDataAt + 2 * k - 1].t =
                  IF cyc.offered[k] < 16 THEN " 0x0" ELSE " 0x"
             /\ cyc.out[ReadDataAt + 2 * k] = Tok("HEX", cyc.offered[k])
        /\ cyc.offered = <<>>
           => cyc.out[ReadDataAt + 1].t = " No Data Received"
        /\ cyc.out[ReadDataAt + (IF cyc.offered = <<>> THEN 2
                                 ELSE 2 * Len(cyc.offered) + 1)].t = "\n"
        /\ \A k \in 0..(TERM_TWOWIRE_BUFFER_SIZE - 1) :
             cyc.parsed.twowire[k] =
               IF k < Len(cyc.offered) THEN cyc.offered[k + 1] ELSE 0

\* C34 happens: "i2c r 3102" is answered with the bytes 0x05 and 0xAB, fewer
\* than the four nibbles the command had left in the buffer
C34_Witness ==
  /\ Dispatched
  /\ RawLine = ReadPrefix \o Hex3102
  /\ cyc.offered = <<5, 171>>
  /\ cyc.ok
  /\ cyc.out[ReadDataAt + 2] = Tok("HEX", 5)
  /\ cyc.out[ReadDataAt + 4] = Tok("HEX", 171)
  /\ cyc.parsed.twowire[2] = 0
  /\ cyc.parsed.twowire[3] = 0
  /\ command.twowire = Command_Init.twowire

---------------------------------------------------------------------------
(* Compaction, backspace, hex round trip                                   *)

\* the line as validation and the tokenizer see it: up to its first NUL
Line ==
  SubSeq(RawLine, 1,
         Min({i \in 1..Len(RawLine) : RawLine[i] = NUL}
             \cup {Len(RawLine) + 1}) - 1)

\* the first position of the line l where the delimiter can be taken for
\* the command delimiter (content comes before it and it is not the last
\* position of the raw buffer), or 0
FirstDelimiter(l) ==
  Min({i \in 1..Len(l) :
         /\ l[i] = termCommandDelimiter
         /\ i # TERM_CHAR_BUFFER_SIZE
         /\ \E j \in 1..(i - 1) : ~isSpace(l[j])}
      \cup {Len(l) + 1}) % (Len(l) + 1)

\* the positions of l whose bytes are kept: all that hold no whitespace,
\* but for position p
Kept(l, p) == {i \in 1..Len(l) : ~isSpace(l[i]) /\ i # p}

\* d holds the bytes of l at the positions S, in their order
Picked(d, l, S) ==
  /\ Len(d) = Cardinality(S)
  /\ \A i \in S : d[Cardinality({j \in S : j <= i})] = l[i]

\* C35 (as amended): for both kinds of delimiter and every line that was
\* tokenized, the compacted buffer holds, in their original order, the bytes
\* of the line that are no whitespace, without the first delimiter that
\* follows content. It holds no whitespace; it holds no delimiter when the
\* delimiter is whitespace.
C35_Compaction ==
  (Dispatched /\ cyc.tokenized)
  => \E l \in {Line} : \E d \in {Data} :
       /\ \E S \in {Kept(l, FirstDelimiter(l))} : Picked(d, l, S)
       /\ \A i \in 1..Len(d) : ~isSpace(d[i])
       /\ isSpace(termCommandDelimiter)
          => d = SelectSeq(l, LAMBDA c : ~isSpace(c)
                                        /\ c # termCommandDelimiter)

\* C35 happens: with the delimiter ',' the line "a,,on" is compacted to
\* "a,on"
C35_Witness ==
  /\ Dispatched
  /\ cyc.tokenized
  /\ termCommandDelimiter = 44
  /\ RawLine = <<97, 44, 44, 111, 110>>
  /\ Data = <<97, 44, 111, 110>>

\* C35 as stated: for every delimiter and every valid line the compacted
\* buffer holds exactly the bytes that are neither whitespace nor the
\* delimiter.
C35_AsStated ==
  (Dispatched /\ ValidLine /\ cyc.tokenized)
  => Data = SelectSeq(RawLine, LAMBDA c : ~isSpace(c)
                                          /\ c # termCommandDelimiter)

\* the line a peer meant by the bytes s: a backspace takes back the byte
\* before it, if there is one
RECURSIVE Edited(_)
Edited(s) ==
  IF s = <<>> THEN <<>>
  ELSE IF s[Len(s)] # BACKSPACE
  THEN Append(Edited(SubSeq(s, 1, Len(s) - 1)), s[Len(s)])
  ELSE IF Edited(SubSeq(s, 1, Len(s) - 1)) = <<>> THEN <<>>
  ELSE SubSeq(Edited(SubSeq(s, 1, Len(s) - 1)), 1,
              Len(Edited(SubSeq(s, 1, Len(s) - 1))) - 1)

\* the bytes a peer can send that are neither line ending nor backspace
Typed == Alphabet \ {TERM_LINE_ENDING, BACKSPACE}

\* the line buffer after loop read the bytes s, echo as configured
After(s) ==
  drainLoop([cmd |-> command, out |-> <<>>, n |-> 0], s, isEchoEnabled).cmd

\* C36: backspace is a no-op on an empty line buffer and otherwise removes
\* exactly the last stored byte: a byte fed while the cursor is below
\* TERM_CHAR_BUFFER_SIZE and then a backspace restore the buffer, and a line
\* typed with corrections is dispatched exactly like the corrected line.
C36_Backspace ==
  /\ (pc = "loop" /\ command.index = 0)
     => After(<<BACKSPACE>>) = command
  /\ (pc = "loop" /\ command.index > 0)
     => After(<<BACKSPACE>>) =
          [command EXCEPT !.index = command.index - 1,
                          !.serialRx[command.index - 1] = NUL]
  /\ (pc = "loop" /\ command.index < TERM_CHAR_BUFFER_SIZE)
     => \A b \in Typed : After(<<b, BACKSPACE>>) = command
  /\ (Dispatched /\ OneLine(Fed) /\ BACKSPACE \in Bytes(Fed))
     => /\ RawLine = Edited(SubSeq(Fed, 1, Len(Fed) - 1))
        /\ \E ub \in {0, 255} :
             /\ Reference(RawLine, ObservedEnv(ub)).rx = cyc.rx
             /\ Outcome(Reference(RawLine, ObservedEnv(ub))) = Outcome(cyc)
             /\ Reference(RawLine, ObservedEnv(ub)).calls = cyc.calls

\* C36 happens: "ab<BS>", with "a" bound, invokes the callback of "a"
C36_Witness ==
  /\ Dispatched
  /\ Fed = <<97, 98, BACKSPACE, TERM_LINE_ENDING>>
  /\ RawLine = <<97>>
  /\ numUserCharCallbacks > 0
  /\ userCharCallbacks[0] = NameA
  /\ Len(cyc.calls) = 1
  /\ Reference(<<97>>, DefaultEnv).calls = cyc.calls

\* the hex digit that stands for the nibble v, in upper case
HexDigit(v) == IF v < 10 THEN 48 + v ELSE 55 + v

\* the hex digit c with a-f folded to A-F
Folded(c) == IF c \in 97..102 THEN c - 32 ELSE c

\* parseTwoWireData accepted the argument of a write command, whose decoded
\* nibbles are in the two-wire buffer when the handler returns
ParsedWrite ==
  /\ Dispatched
  /\ cyc.handler = "writeTwoWire"
  /\ cyc.type \notin {"InvalidTwoWireCharacter", "InvalidTwoWireCmdLength",
                      "InvalidHexValuePair"}

\* C37: hex round trip. For every hex argument the two-wire parser accepts,
\* the decoded nibbles, written again as upper-case hex digits, give the
\* whole argument with a-f folded to A-F.
C37_RoundTrip ==
  ParsedWrite
  => /\ Len(HexArg) <= TERM_TWOWIRE_BUFFER_SIZE
     /\ \A i \in 1..Len(HexArg) :
          HexDigit(cyc.parsed.twowire[i - 1]) = Folded(HexArg[i])

---------------------------------------------------------------------------
(* Batches, two-wire buffer bounds, duplicate bindings                     *)

\* the stream s is made of terminated lines of at most
\* TERM_CHAR_BUFFER_SIZE bytes each
TerminatedLines(s) ==
  /\ s # <<>>
  /\ s[Len(s)] = TERM_LINE_ENDING
  /\ \A i \in 1..(Len(s) - TERM_CHAR_BUFFER_SIZE) :
       \E j \in i..(i + TERM_CHAR_BUFFER_SIZE) : s[j] = TERM_LINE_ENDING

\* the first line of the bytes read since the buffer was last empty
FirstLine == SubSeq(Fed, 1, FirstEnding(Fed) - 1)

\* C38: batch independence. For every stream of terminated lines of at
\* most TERM_CHAR_BUFFER_SIZE bytes, however it is split into batches, a
\* call of loop that dispatches a line does what a terminal does that
\* finds the line alone in its batch: same
\* raw buffer, same callbacks with the same arguments, same bus operations,
\* same result and error, same transcript.
C38_BatchIndependence ==
  (Dispatched /\ TerminatedLines(input))
  => \E ub \in {0, 255} :
       /\ Reference(FirstLine, ObservedEnv(ub)).rx = cyc.rx
       /\ Reference(FirstLine, ObservedEnv(ub)).calls = cyc.calls
       /\ Outcome(Reference(FirstLine, ObservedEnv(ub))) = Outcome(cyc)

\* parseTwoWireData returned true in a read or write
ParserAccepted ==
  /\ TwoWireCommand
  /\ cyc.type \notin {"InvalidTwoWireCharacter", "InvalidTwoWireCmdLength",
                      "InvalidHexValuePair"}

\* C39: two-wire buffer bounds. For every command line that fits the line
\* buffer, after a successful parse the number of decoded nibbles equals
\* the argument length the handlers use, and every index at which
\* writeTwoWire reads the two-wire buffer is below
\* TERM_TWOWIRE_BUFFER_SIZE.
C39_TwoWireBounds ==
  ParserAccepted
  => /\ parseStop(cyc.parsed) = cyc.parsed.argsLength
     /\ Ops("write") # {}
        => \A k \in writeTwoWire_indices(cyc.parsed) :
             k < TERM_TWOWIRE_BUFFER_SIZE

\* the entries of the registry whose name is the token of the line
Matching == {k \in Held : userCharCallbacks[k] = Token}

\* C40: duplicate bindings. When the name of a line is bound more than
\* once, the line invokes the callback of the earliest binding of the name
\* and no other: exactly one callback runs, and no built-in.
C40_EarliestBinding ==
  (/\ Dispatched
   /\ cyc.tokenized
   /\ Cardinality(Matching) > 1)
  => /\ Len(cyc.calls) = 1
     /\ cyc.calls[1].k = Min(Matching)
     /\ \A k \in Matching \ {Min(Matching)} :
          \A i \in 1..Len(cyc.calls) : cyc.calls[i].k # k
     /\ cyc.ok
     /\ NoBuiltin

\* C40 happens: "a" is bound twice after another name, and the line "a on"
\* invokes the first of the two with the argument "on"
C40_Witness ==
  /\ Dispatched
  /\ RawLine = <<97, 32, 111, 110>>
  /\ numUserCharCallbacks >= 3
  /\ userCharCallbacks[0] # NameA
  /\ userCharCallbacks[1] = NameA
  /\ userCharCallbacks[2] = NameA
  /\ cyc.calls = <<[k |-> 1, ptr |-> 2, len |-> 2]>>

====
